---------------------------- MODULE Spec2Model ----------------------------
(***************************************************************************)
(* Syllabus Kitty browser extension: the popup orchestrator (popup.js),    *)
(* its session store (chrome.storage.local), the content script's          *)
(* highlight engine and syllabus detector.                                 *)
(*                                                                         *)
(* Spec       the popup orchestrator, the session store and the page       *)
(* SpecConc   the orchestrator when the user acts during a pending request *)
(* SpecNav    the session store while the tab is navigated                 *)
(* SpecLoad   session load from a store holding a damaged record           *)
(* SpecHL     the highlight engine of the content script on a document     *)
(* SpecDet    the syllabus detector of the content script on a page text   *)
(* SpecRouter the service worker's message listener                        *)
(* SpecWatch  the selection watcher of the content script                  *)
(* The specifications share the variables; each keeps the others' fixed.   *)
(***************************************************************************)
EXTENDS Integers, Sequences, FiniteSets, TLC

VARIABLES
    popup,        \* "closed" | "open": whether the popup's script context exists
    js,           \* popup.js module-level variables and the DOM elements' state
    inflight,     \* suspended async handlers of the popup, at their await
    storage,      \* chrome.storage.local: session key -> <<>> or <<record>>
    page,         \* the page shown in the active tab
    pageHighlight,\* text the content context was last asked to highlight
    now,          \* Date.now(), in milliseconds
    overlap,      \* whether the user acts while a handler is still suspended
    lastOp,       \* history variable: label of the step taken last
    scenario,     \* history variable: progress through Scenario B
    dom,          \* content script: the document, [head, body]
    text0,        \* history variable: the body's text content before any call
    hlLast,       \* history variable: the highlight engine's last call
    hlCalls,      \* calls of the highlight engine so far
    pageText,     \* content script: document.body.textContent
    detection,    \* result of detectSyllabusContent, <<>> before it has run
    exchanges,    \* service worker: the messages received, with replies and forwards
    watcher,      \* content script: the selection, the debounce timer, the events sent
    extraction    \* the page's document, the text given to cleanText, and the results

popupVars == <<popup, js, inflight, storage, page, pageHighlight, now, overlap, lastOp, scenario>>
engineVars == <<dom, text0, hlLast, hlCalls>>
detectorVars == <<pageText, detection>>
routerVars == <<exchanges>>
watcherVars == <<watcher>>
extractorVars == <<extraction>>
contentVars == <<engineVars, detectorVars, routerVars, watcherVars, extractorVars>>
vars == <<popupVars, engineVars, detectorVars, routerVars, watcherVars, extractorVars>>

-----------------------------------------------------------------------------
(* Bounds of the model *)

\* handlers that may be suspended at an await at the same time, when the user
\* does not wait for one action to end before the next
MaxInFlight == 2
\* entries on previewHistory beyond which no new Simplify/Translate is started
MaxHist == 4
\* clock advances (while the popup is closed)
MaxTicks == 1
\* messages the service worker receives
MaxMsgs == 2
\* the selection watcher's clock stops here (milliseconds)
MaxClock == 700
\* selection changes the watcher sees
MaxChanges == 3

-----------------------------------------------------------------------------
(* Values *)

Null == "null"
Undef == "undefined"
Empty == ""

\* State (popup.js); State.EXTRACTING is not a member of the object, so
\* updateState(State.EXTRACTING) stores undefined
State ==
    [IDLE |-> "idle", DETECTING |-> "detecting", SIMPLIFYING |-> "simplifying",
     TRANSLATING |-> "translating", ADDING_TO_CALENDAR |-> "adding",
     GENERATING_PDF |-> "generating", SUCCESS |-> "success", ERROR |-> "error",
     EXTRACTING |-> Undef]

BaseLanguage == "en"
Languages == {"en", "fr"}

\* contents handled by the orchestrator
PageText == "page text"
SelectionTexts == {"selected text"}
PdfLabel == "PDF: url"
DetectedLabel == "Detected N events"
SimplifiedValues == {"simplified-1", "simplified-2"}
Translated(lang) == "translated-" \o lang

TabId == "tab1"

\* a URL is the sequence of its parts; "?" and "#" start query and fragment
UrlA == <<"https://a/syllabus">>
UrlB == <<"https://b/syllabus.pdf">>
UrlC == <<"https://c/course", "?", "id=1">>
Pages ==
    { [url |-> UrlA, kind |-> "html", text |-> PageText, embeddedPdfUrl |-> Undef],
      [url |-> UrlB, kind |-> "pdf", text |-> Empty, embeddedPdfUrl |-> Undef],
      [url |-> UrlC, kind |-> "html", text |-> PageText, embeddedPdfUrl |-> "https://c/file.pdf"] }

\* the pages the tab is navigated between: the PDF at UrlB under URLs that
\* differ in query string and fragment only, and another PDF
UrlD == <<"https://b/other.pdf">>
NavUrls ==
    { UrlB,
      UrlB \o <<"?", "dl=1">>,
      UrlB \o <<"#", "page=2">>,
      UrlB \o <<"#", "page=2", "?", "x">>,
      UrlD,
      UrlD \o <<"?", "dl=1">> }

NavPages ==
    { [url |-> u, kind |-> "pdf", text |-> Empty, embeddedPdfUrl |-> Undef] : u \in NavUrls }

Truthy(s) == s # Null /\ s # Undef /\ s # Empty

\* a || b on strings
Or(a, b) == IF Truthy(a) THEN a ELSE b

\* calendarEvents: null, or an array given by its printed form
EventLists == {"[]", "[e1]"}
EventsLength(ev) == IF ev = "[e1]" THEN 1 ELSE 0

-----------------------------------------------------------------------------
(* extractedData objects *)

NullData ==
    [isNull |-> TRUE, tabId |-> Undef, url |-> <<>>, isPdf |-> FALSE,
     isEmbeddedPdf |-> FALSE, embeddedPdfUrl |-> Undef, type |-> Undef,
     text |-> Undef, sourceUrl |-> <<>>]

\* {} : the object a spread of null yields
EmptyData == [NullData EXCEPT !.isNull = FALSE]

\* currentPageUrl = null
NullUrl == <<>>

\* extractedData?.tabId
HasTabId(d) == ~d.isNull /\ d.tabId # Undef

-----------------------------------------------------------------------------
(* popup.js: module-level variables and elements, as one record *)

\* the elements' state before any detection: what resetAllState restores
\* ("Reset UI to pre-detection state"); popup.html itself is not in the source
InitialElements ==
    [previewText |-> Empty,
     detectBtnDisabled |-> FALSE,
     simplifyBtnDisabled |-> TRUE,
     translateBtnDisabled |-> TRUE,
     resetBtnDisabled |-> TRUE,
     downloadPdfBtnDisabled |-> TRUE,
     addToCalendarBtnDisabled |-> TRUE,
     postDetectionUI |-> FALSE,
     dropdownHidden |-> TRUE,
     errorText |-> Null]

InitialVariables ==
    [currentState |-> State.IDLE,
     extractedData |-> NullData,
     importedId |-> Null,
     syllabusData |-> Null,
     calendarEvents |-> Null,
     simplifiedMarkdown |-> Null,
     translatedMarkdown |-> Null,
     currentLanguage |-> "en",
     currentPreviewType |-> "original",
     previewHistory |-> <<>>,
     currentPageUrl |-> NullUrl,
     currentTabId |-> Null]

Merge(a, b) == [k \in (DOMAIN a) \cup (DOMAIN b) |-> IF k \in DOMAIN a THEN a[k] ELSE b[k]]

InitJs == Merge(InitialVariables, InitialElements)

showError(j, message) == [j EXCEPT !.errorText = message]

updateState(j, newState) ==
    LET base == [j EXCEPT !.currentState = newState,
                          !.errorText = Null,
                          !.detectBtnDisabled = FALSE]
    IN  CASE newState = State.IDLE ->
               IF Truthy(j.simplifiedMarkdown)
               THEN [base EXCEPT !.translateBtnDisabled = FALSE]
               ELSE base
          [] newState = State.DETECTING ->
               [base EXCEPT !.detectBtnDisabled = TRUE]
          [] newState = State.SIMPLIFYING ->
               [base EXCEPT !.simplifyBtnDisabled = TRUE]
          [] newState = State.TRANSLATING ->
               [base EXCEPT !.translateBtnDisabled = TRUE]
          [] newState = State.ADDING_TO_CALENDAR ->
               [base EXCEPT !.addToCalendarBtnDisabled = TRUE]
          [] newState = State.GENERATING_PDF ->
               [base EXCEPT !.downloadPdfBtnDisabled = TRUE]
          [] OTHER -> base

pushToHistory(j, type, content, language) ==
    LET h == Append(j.previewHistory,
                    [type |-> type, content |-> content, language |-> language])
    IN  [j EXCEPT !.previewHistory = h, !.resetBtnDisabled = (Len(h) <= 1)]

\* faulty variant: the preview type is left as it was
updatePreview_ContentOnly(j, content, type) ==
    [j EXCEPT !.previewText = content]

updatePreview(j, content, type) ==
    [j EXCEPT !.previewText = content, !.currentPreviewType = type]

\* faulty variant: the Simplify control is left as it was
enableActionButtons_NoSimplify(j) ==
    [j EXCEPT !.addToCalendarBtnDisabled = FALSE,
              !.downloadPdfBtnDisabled = FALSE,
              !.translateBtnDisabled = TRUE]

enableActionButtons(j) ==
    [j EXCEPT !.simplifyBtnDisabled = FALSE,
              !.addToCalendarBtnDisabled = FALSE,
              !.downloadPdfBtnDisabled = FALSE,
              !.translateBtnDisabled = TRUE]

showPostDetectionUI(j) == [j EXCEPT !.postDetectionUI = TRUE]

hidePostDetectionUI(j) == [j EXCEPT !.postDetectionUI = FALSE]

resetAllState(j) ==
    hidePostDetectionUI(
      [j EXCEPT !.extractedData = NullData,
                !.importedId = Null,
                !.syllabusData = Null,
                !.calendarEvents = Null,
                !.simplifiedMarkdown = Null,
                !.translatedMarkdown = Null,
                !.currentLanguage = "en",
                !.currentPreviewType = "original",
                !.previewHistory = <<>>,
                !.simplifyBtnDisabled = TRUE,
                !.translateBtnDisabled = TRUE,
                !.resetBtnDisabled = TRUE,
                !.downloadPdfBtnDisabled = TRUE,
                !.addToCalendarBtnDisabled = TRUE,
                !.previewText = Empty])

getCurrentPreviewContent(j) ==
    IF j.currentPreviewType = "translated" /\ Truthy(j.translatedMarkdown)
    THEN j.translatedMarkdown
    ELSE IF j.currentPreviewType = "simplified" /\ Truthy(j.simplifiedMarkdown)
    THEN j.simplifiedMarkdown
    ELSE IF j.extractedData.isNull THEN Empty ELSE Or(j.extractedData.text, Empty)

\* a click anywhere outside the translate button and its dropdown hides the
\* dropdown (document click listener)
clickOutside(j) == [j EXCEPT !.dropdownHidden = TRUE]

-----------------------------------------------------------------------------
(* Session store *)

Sep == {"?", "#"}

\* faulty variant: only the query string is removed, a fragment is kept
CleanUrl_QueryOnly(url) ==
    LET cut == {i \in 1..Len(url) : url[i] = "?"}
    IN  IF cut = {} THEN url
        ELSE SubSeq(url, 1, (CHOOSE i \in cut : \A k \in cut : i <= k) - 1)

\* url.replace(/[#?].*$/, ''): the parts before the first "?" or "#"
CleanUrl(url) ==
    LET cut == {i \in 1..Len(url) : url[i] \in Sep}
    IN  IF cut = {} THEN url
        ELSE SubSeq(url, 1, (CHOOSE i \in cut : \A k \in cut : i <= k) - 1)

STORAGE_KEY_PREFIX == "syllabusKitty_session_"

\* url?.replace(...) || 'unknown', behind the prefix
getSessionKey(url) ==
    <<STORAGE_KEY_PREFIX>> \o (IF CleanUrl(url) = <<>> THEN <<"unknown">> ELSE CleanUrl(url))

SessionKeys == {getSessionKey(p.url) : p \in Pages \cup NavPages} \cup {getSessionKey(NullUrl)}

\* maxAge in restoreSession
maxAge == 24 * 60 * 60 * 1000

\* sessionData of saveSession
SessionData(j, t) ==
    [extractedData |-> j.extractedData,
     importedId |-> j.importedId,
     syllabusData |-> j.syllabusData,
     calendarEvents |-> j.calendarEvents,
     simplifiedMarkdown |-> j.simplifiedMarkdown,
     translatedMarkdown |-> j.translatedMarkdown,
     currentLanguage |-> j.currentLanguage,
     currentPreviewType |-> j.currentPreviewType,
     previewHistory |-> j.previewHistory,
     previewText |-> j.previewText,
     timestamp |-> t]

\* the store after saveSession (nothing is written without extractedData)
saveSession(j, st, t) ==
    IF j.extractedData.isNull THEN st
    ELSE [st EXCEPT ![getSessionKey(j.currentPageUrl)] = <<SessionData(j, t)>>]

\* the store after clearSession
clearSession(j, st) ==
    IF j.currentPageUrl = NullUrl THEN st
    ELSE [st EXCEPT ![getSessionKey(j.currentPageUrl)] = <<>>]

-----------------------------------------------------------------------------
(* History variables *)

\* Scenario B of the specification: popup opened on a page without a stored
\* session, then Detect, Simplify, Translate("fr"), Reset, each completed
\* before the next starts and nothing else in between.  Any other step
\* leaves the scenario ("off").
ScenarioStep(s, label, lang) ==
    CASE label = "restore_none" -> "fresh"
      [] s = "fresh" /\ label = "detect_start" -> "detecting"
      [] s = "detecting" /\ label \in {"detect_tab_pdf", "detect_tab_html",
                                       "detect_script_ok", "detect_remote_ok"} -> "detecting"
      [] s = "detecting" /\ label = "detect_finish" -> "detected"
      [] s = "detected" /\ label = "simplify_start" -> "simplifying"
      [] s = "simplifying" /\ label = "simplify_ok" -> "simplified"
      [] s = "simplified" /\ label = "dropdown_toggle" -> "simplified"
      [] s = "simplified" /\ label = "translate_start" /\ lang = "fr" -> "translating"
      [] s = "translating" /\ label = "translate_ok" -> "translated"
      [] s = "translated" /\ label = "reset" -> "reset done"
      [] OTHER -> "off"

LogLang(label, lang) ==
    /\ lastOp' = label
    /\ scenario' = ScenarioStep(scenario, label, lang)

Log(label) == LogLang(label, Null)

-----------------------------------------------------------------------------
(* Suspended handlers *)

\* was is a history field: currentLanguage when a Translate call started
Entry(op, pc, lang, kind, payload) ==
    [op |-> op, pc |-> pc, lang |-> lang, kind |-> kind, payload |-> payload,
     was |-> Null]

Remove(seq, i) == SubSeq(seq, 1, i - 1) \o SubSeq(seq, i + 1, Len(seq))

SetPc(seq, i, pc) == [seq EXCEPT ![i].pc = pc]

At(i, op, pc) ==
    /\ popup = "open"
    /\ i \in 1..Len(inflight)
    /\ inflight[i].op \in op
    /\ inflight[i].pc = pc

CanStart ==
    /\ popup = "open"
    /\ IF overlap THEN Len(inflight) < MaxInFlight ELSE inflight = <<>>

\* catch (error) { updateState(State.ERROR); showError(...) } of the handlers
catchError(j, message) == showError(updateState(j, State.ERROR), message)

-----------------------------------------------------------------------------
(* Popup lifetime, clock, navigation *)

\* init(): a fresh script context; listeners are set up and getPageInfo runs
OpenPopup ==
    /\ popup = "closed"
    /\ popup' = "open"
    /\ js' = InitJs
    /\ inflight' = <<Entry("init", "pageinfo", Null, Null, Null)>>
    /\ Log("open")
    /\ UNCHANGED <<storage, page, pageHighlight, now, overlap, contentVars>>

\* the popup is closed: its script context and every suspended handler vanish
ClosePopup ==
    /\ popup = "open"
    /\ popup' = "closed"
    /\ js' = InitJs
    /\ inflight' = <<>>
    /\ Log("close")
    /\ UNCHANGED <<storage, page, pageHighlight, now, overlap, contentVars>>

\* the clock advances by exactly the maximal age, or by one millisecond more
Deltas == {maxAge, maxAge + 1}

Ticks(t) == t \div maxAge

\* the clock is read only as now - timestamp: it is advanced while the popup
\* is closed and a session is stored
Tick(d) ==
    /\ popup = "closed"
    /\ \E k \in SessionKeys : storage[k] # <<>>
    /\ Ticks(now) < MaxTicks
    /\ now' = now + d
    /\ Log("tick")
    /\ UNCHANGED <<popup, js, inflight, storage, page, pageHighlight, overlap, contentVars>>

\* getPageInfo: page kind, currentPageUrl, currentTabId, extractedData
getPageInfo(j) ==
    [j EXCEPT !.currentPageUrl = page.url,
              !.currentTabId = TabId,
              !.extractedData =
                  [isNull |-> FALSE, tabId |-> TabId, url |-> page.url,
                   isPdf |-> (page.kind = "pdf"),
                   isEmbeddedPdf |-> Truthy(page.embeddedPdfUrl),
                   embeddedPdfUrl |-> page.embeddedPdfUrl,
                   type |-> Undef, text |-> Undef, sourceUrl |-> <<>>]]

GetPageInfoDone(i) ==
    /\ At(i, {"init", "clear", "retry"}, "pageinfo")
    /\ js' = getPageInfo(js)
    /\ inflight' = IF inflight[i].op = "init" THEN SetPc(inflight, i, "restore")
                   ELSE Remove(inflight, i)
    /\ Log("pageinfo")
    /\ UNCHANGED <<popup, storage, page, pageHighlight, now, overlap, contentVars>>

\* restoreSession, from the answer of chrome.storage.local.get on
restoreFields(j, session) ==
    LET j1 == [j EXCEPT !.extractedData = session.extractedData,
                        !.importedId = session.importedId,
                        !.syllabusData = session.syllabusData,
                        !.calendarEvents = session.calendarEvents,
                        !.simplifiedMarkdown = session.simplifiedMarkdown,
                        !.translatedMarkdown = session.translatedMarkdown,
                        !.currentLanguage = Or(session.currentLanguage, "en"),
                        !.currentPreviewType = Or(session.currentPreviewType, "original"),
                        !.previewHistory = session.previewHistory,
                        !.previewText = Or(session.previewText, Empty)]
        j2 == enableActionButtons(showPostDetectionUI(j1))
    IN  IF Truthy(j2.simplifiedMarkdown)
        THEN [j2 EXCEPT !.translateBtnDisabled = FALSE]
        ELSE j2

\* faulty variant: a session of exactly the maximal age counts as expired
Expired_AtMaxAge(session, t) == t - session.timestamp >= maxAge

\* Date.now() - session.timestamp > maxAge; without a timestamp the
\* difference is NaN and the comparison is false
Expired(session, t) ==
    /\ "timestamp" \in DOMAIN session
    /\ t - session.timestamp > maxAge

\* !session || !session.extractedData, on the slot read from the store
Absent(slot) ==
    \/ slot = <<>>
    \/ "extractedData" \notin DOMAIN slot[1]
    \/ slot[1].extractedData.isNull

restoreSession(i) ==
    /\ At(i, {"init"}, "restore")
    /\ inflight' = Remove(inflight, i)
    /\ LET key == getSessionKey(js.currentPageUrl)
       IN  IF js.currentPageUrl = NullUrl \/ Absent(storage[key])
           THEN /\ Log("restore_none")
                /\ UNCHANGED <<js, storage, pageHighlight>>
           ELSE IF Expired(storage[key][1], now)
           THEN /\ storage' = clearSession(js, storage)
                /\ Log("restore_expired")
                /\ UNCHANGED <<js, pageHighlight>>
           ELSE /\ js' = restoreFields(js, storage[key][1])
                /\ pageHighlight' =
                      IF Truthy(js'.extractedData.text) /\ Truthy(js'.currentTabId)
                      THEN js'.extractedData.text ELSE pageHighlight
                /\ Log("restore_ok")
                /\ UNCHANGED storage
    /\ UNCHANGED <<popup, page, now, overlap, contentVars>>

\* SELECTION_CHANGED reaches the popup's listener
SelectionChanged(t) ==
    /\ popup = "open"
    /\ page.kind = "html"
    /\ js' = [js EXCEPT
                !.extractedData =
                    [(IF @.isNull THEN EmptyData ELSE @) EXCEPT !.text = t, !.type = "text"],
                !.previewText = t,
                !.simplifiedMarkdown = Null,
                !.translatedMarkdown = Null,
                !.currentPreviewType = "original",
                !.previewHistory = <<[type |-> "original", content |-> t, language |-> "en"]>>,
                !.translateBtnDisabled = TRUE]
    /\ Log("selection")
    /\ UNCHANGED <<popup, inflight, storage, page, pageHighlight, now, overlap, contentVars>>

-----------------------------------------------------------------------------
(* handleDetect *)

PopupUrl == <<"chrome-extension://popup.html">>

\* extractContent(data): the request that reaches the remote extraction
\* service (import-pdf-url for type 'pdf', import-text otherwise)
extractRequest(d) ==
    IF d.type = "pdf"
    THEN Entry("detect", "remote", Null, "pdf", Null)
    ELSE Entry("detect", "remote", Null, "text", Or(d.text, Empty))

\* click on the Detect button
DetectClick ==
    /\ CanStart
    /\ ~js.postDetectionUI
    /\ ~js.detectBtnDisabled
    /\ IF ~HasTabId(js.extractedData)
       THEN /\ js' = clickOutside(showError(js, "No page to detect"))
            /\ Log("detect_guard")
            /\ UNCHANGED inflight
       ELSE /\ js' = clickOutside(updateState(js, State.DETECTING))
            /\ inflight' = Append(inflight, Entry("detect", "tabquery", Null, Null, Null))
            /\ Log("detect_start")
    /\ UNCHANGED <<popup, storage, page, pageHighlight, now, overlap, contentVars>>

\* chrome.tabs.query has answered: branch on the page kind
DetectTab(i) ==
    /\ At(i, {"detect"}, "tabquery")
    /\ LET d == js.extractedData
       IN  IF d.isNull
           THEN /\ js' = catchError(js, "Failed to detect syllabus content")
                /\ inflight' = Remove(inflight, i)
                /\ Log("detect_error")
           ELSE IF d.isPdf
           THEN LET d1 == [d EXCEPT !.type = "pdf", !.url = page.url, !.sourceUrl = page.url]
                IN  /\ js' = [js EXCEPT !.extractedData = d1, !.previewText = PdfLabel]
                    /\ inflight' = [inflight EXCEPT ![i] = extractRequest(d1)]
                    /\ Log("detect_tab_pdf")
           ELSE IF d.isEmbeddedPdf /\ Truthy(d.embeddedPdfUrl)
           THEN LET d1 == [d EXCEPT !.type = "pdf", !.url = <<d.embeddedPdfUrl>>,
                                    !.sourceUrl = page.url]
                IN  /\ js' = [js EXCEPT !.extractedData = d1, !.previewText = PdfLabel]
                    /\ inflight' = [inflight EXCEPT ![i] = extractRequest(d1)]
                    /\ Log("detect_tab_pdf")
           ELSE /\ js' = updateState(js, State.EXTRACTING)
                /\ inflight' = SetPc(inflight, i, "script")
                /\ Log("detect_tab_html")
    /\ UNCHANGED <<popup, storage, page, pageHighlight, now, overlap, contentVars>>

\* extractPageContent, run in the page
extractPageContent(p) ==
    IF Truthy(p.embeddedPdfUrl)
    THEN [isPdf |-> TRUE, pdfUrl |-> <<p.embeddedPdfUrl>>, text |-> Empty]
    ELSE IF p.kind = "pdf"
    THEN [isPdf |-> TRUE, pdfUrl |-> p.url, text |-> Empty]
    ELSE [isPdf |-> FALSE, pdfUrl |-> NullUrl, text |-> p.text]

\* extractHtmlContent after executeScript, then handleDetect's call of
\* extractContent (ok = FALSE: the script failed or returned nothing)
DetectScript(i, ok) ==
    /\ At(i, {"detect"}, "script")
    /\ LET r  == extractPageContent(page)
           d1 == IF r.isPdf /\ r.pdfUrl # NullUrl
                 THEN [EmptyData EXCEPT !.type = "pdf", !.url = r.pdfUrl]
                 ELSE [EmptyData EXCEPT !.type = "text", !.text = r.text,
                                        !.sourceUrl = PopupUrl]
           j1 == IF ok
                 THEN updateState([js EXCEPT !.extractedData = d1,
                                             !.previewText = IF d1.type = "pdf" THEN PdfLabel
                                                             ELSE r.text],
                                  State.IDLE)
                 ELSE showError(updateState(js, State.ERROR),
                                "Could not extract content from this page")
       IN  IF j1.extractedData.isNull
           THEN /\ js' = catchError(j1, "Failed to detect syllabus content")
                /\ inflight' = Remove(inflight, i)
                /\ Log("detect_error")
           ELSE /\ js' = j1
                /\ inflight' = [inflight EXCEPT ![i] = extractRequest(j1.extractedData)]
                /\ Log(IF ok THEN "detect_script_ok" ELSE "detect_script_fail")
    /\ UNCHANGED <<popup, storage, page, pageHighlight, now, overlap, contentVars>>

SyllabusValues == {"syllabus data", Null}

\* the tail of handleDetect: UI, state, saveSession
detectTail(j) == enableActionButtons(updateState(showPostDetectionUI(j), State.IDLE))

\* the remote extraction service has answered with success
DetectRemoteOk(i, sd, ev) ==
    /\ At(i, {"detect"}, "remote")
    /\ LET d  == js.extractedData
           j1 == [js EXCEPT !.importedId = "id1",
                            !.syllabusData = sd,
                            !.calendarEvents = Or(ev, "[]")]
       IN  IF d.isNull
           THEN /\ js' = catchError(j1, "Failed to detect syllabus content")
                /\ inflight' = Remove(inflight, i)
                /\ Log("detect_error")
                /\ UNCHANGED <<storage, pageHighlight>>
           ELSE LET j2 == pushToHistory(
                              updatePreview(j1, Or(d.text, DetectedLabel), "original"),
                              "original", Or(d.text, Empty), "en")
                IN  IF Truthy(d.text)
                    THEN \* highlightOnPage sends highlightText and awaits the reply
                         /\ js' = j2
                         /\ pageHighlight' = d.text
                         /\ inflight' = SetPc(inflight, i, "highlight")
                         /\ Log("detect_remote_ok")
                         /\ UNCHANGED storage
                    ELSE /\ js' = detectTail(j2)
                         /\ storage' = saveSession(js', storage, now)
                         /\ inflight' = Remove(inflight, i)
                         /\ Log("detect_finish")
                         /\ UNCHANGED pageHighlight
    /\ UNCHANGED <<popup, page, now, overlap, contentVars>>

\* the content context has answered the highlight request
DetectFinish(i) ==
    /\ At(i, {"detect"}, "highlight")
    /\ js' = detectTail(js)
    /\ storage' = saveSession(js', storage, now)
    /\ inflight' = Remove(inflight, i)
    /\ Log("detect_finish")
    /\ UNCHANGED <<popup, page, pageHighlight, now, overlap, contentVars>>

\* any remote call failed (HTTP error, or success = false): the handler's catch
RemoteFail(i) ==
    /\ At(i, {"detect", "simplify", "translate", "download", "calendar"}, "remote")
    /\ js' = catchError(js, "Failed")
    /\ inflight' = Remove(inflight, i)
    /\ Log(inflight[i].op \o "_fail")
    /\ UNCHANGED <<popup, storage, page, pageHighlight, now, overlap, contentVars>>

-----------------------------------------------------------------------------
(* handleSimplify *)

\* faulty variant: the guard of handleSimplify never fails
simplifyGuardFails_Never(j) == FALSE

\* if (!syllabusData)
simplifyGuardFails(j) == ~Truthy(j.syllabusData)

SimplifyClick ==
    /\ CanStart
    /\ js.postDetectionUI
    /\ ~js.simplifyBtnDisabled
    /\ IF simplifyGuardFails(js)
       THEN /\ js' = clickOutside(showError(js, "No syllabus data to simplify. Please detect first."))
            /\ Log("simplify_guard")
            /\ UNCHANGED inflight
       ELSE IF js.extractedData.isNull
       THEN /\ js' = clickOutside(catchError(updateState(js, State.SIMPLIFYING),
                                             "Failed to simplify syllabus content"))
            /\ Log("simplify_error")
            /\ UNCHANGED inflight
       ELSE /\ Len(js.previewHistory) < MaxHist
            /\ js' = clickOutside(updateState(js, State.SIMPLIFYING))
            /\ inflight' = Append(inflight,
                                  Entry("simplify", "remote", Null, Null, js.syllabusData))
            /\ Log("simplify_start")
    /\ UNCHANGED <<popup, storage, page, pageHighlight, now, overlap, contentVars>>

SimplifyOk(i, simplified) ==
    /\ At(i, {"simplify"}, "remote")
    /\ js' = updateState(
                [pushToHistory(
                    updatePreview([js EXCEPT !.simplifiedMarkdown = simplified],
                                  simplified, "simplified"),
                    "simplified", simplified, "en")
                 EXCEPT !.translateBtnDisabled = FALSE],
                State.IDLE)
    /\ inflight' = Remove(inflight, i)
    /\ Log("simplify_ok")
    /\ UNCHANGED <<popup, storage, page, pageHighlight, now, overlap, contentVars>>

-----------------------------------------------------------------------------
(* handleTranslate *)

\* the options of languageSelect (popup.html is not in the source)
LanguageOptions == Languages

toggleTranslateDropdown ==
    /\ popup = "open"
    /\ js.postDetectionUI
    /\ IF js.translateBtnDisabled
       THEN /\ Log("dropdown_disabled")
            /\ UNCHANGED js
       ELSE /\ js' = [js EXCEPT !.dropdownHidden = ~@]
            /\ Log("dropdown_toggle")
    /\ UNCHANGED <<popup, inflight, storage, page, pageHighlight, now, overlap, contentVars>>

\* if (!simplifiedMarkdown)
translateGuardFails(j) == ~Truthy(j.simplifiedMarkdown)

\* a language is chosen in the open dropdown: handleTranslate(targetLanguage),
\* then the dropdown is hidden
TranslateSelect(targetLanguage) ==
    /\ CanStart
    /\ js.postDetectionUI
    /\ ~js.dropdownHidden
    /\ IF translateGuardFails(js)
       THEN /\ js' = clickOutside(showError(js, "No simplified content to translate. Please simplify first."))
            /\ Log("translate_guard")
            /\ UNCHANGED inflight
       ELSE IF targetLanguage = "en"
       THEN /\ js' = clickOutside([updatePreview(js, js.simplifiedMarkdown, "simplified")
                                   EXCEPT !.currentLanguage = "en"])
            /\ Log("translate_base")
            /\ UNCHANGED inflight
       ELSE /\ Len(js.previewHistory) < MaxHist
            /\ js' = clickOutside(updateState([js EXCEPT !.currentLanguage = targetLanguage],
                                              State.TRANSLATING))
            /\ inflight' = Append(inflight,
                                  [Entry("translate", "remote", targetLanguage, Null,
                                         js.simplifiedMarkdown)
                                   EXCEPT !.was = js.currentLanguage])
            /\ LogLang("translate_start", targetLanguage)
    /\ UNCHANGED <<popup, storage, page, pageHighlight, now, overlap, contentVars>>

TranslateOk(i) ==
    /\ At(i, {"translate"}, "remote")
    /\ LET translated == Translated(inflight[i].lang)
       IN  js' = updateState(
                   pushToHistory(
                       updatePreview([js EXCEPT !.translatedMarkdown = translated],
                                     translated, "translated"),
                       "translated", translated, inflight[i].lang),
                   State.IDLE)
    /\ inflight' = Remove(inflight, i)
    /\ Log("translate_ok")
    /\ UNCHANGED <<popup, storage, page, pageHighlight, now, overlap, contentVars>>

-----------------------------------------------------------------------------
(* handleReset *)

\* faulty variant: translatedMarkdown survives the return to a simplified entry
popHistory_KeepTranslated(j) ==
    LET h == SubSeq(j.previewHistory, 1, Len(j.previewHistory) - 1)
        previous == h[Len(h)]
    IN  [updatePreview([j EXCEPT !.previewHistory = h], previous.content, previous.type)
         EXCEPT !.resetBtnDisabled = (Len(h) <= 1)]

\* the history with its top entry popped, and what `if (previous)` restores
popHistory(j) ==
    LET h == SubSeq(j.previewHistory, 1, Len(j.previewHistory) - 1)
    IN  IF h = <<>>
        THEN [j EXCEPT !.previewHistory = h, !.resetBtnDisabled = TRUE]
        ELSE LET previous == h[Len(h)]
                 j1       == updatePreview([j EXCEPT !.previewHistory = h],
                                           previous.content, previous.type)
                 j2       == IF previous.type = "original"
                             THEN [j1 EXCEPT !.simplifiedMarkdown = Null,
                                             !.translatedMarkdown = Null,
                                             !.currentLanguage = "en",
                                             !.translateBtnDisabled = TRUE]
                             ELSE IF previous.type = "simplified"
                             THEN [j1 EXCEPT !.translatedMarkdown = Null,
                                             !.currentLanguage = "en"]
                             ELSE j1
             IN  [j2 EXCEPT !.currentPreviewType = previous.type,
                            !.resetBtnDisabled = (Len(h) <= 1)]

\* faulty variant: the guard lets a single-entry history through
handleReset_OffByOne(j) ==
    IF Len(j.previewHistory) < 1 THEN j ELSE popHistory(j)

handleReset(j) ==
    IF Len(j.previewHistory) <= 1 THEN j ELSE popHistory(j)

ResetClick ==
    /\ popup = "open"
    /\ js.postDetectionUI
    /\ ~js.resetBtnDisabled
    /\ js' = clickOutside(handleReset(js))
    /\ Log(IF Len(js.previewHistory) <= 1 THEN "reset_noop" ELSE "reset")
    /\ UNCHANGED <<popup, inflight, storage, page, pageHighlight, now, overlap, contentVars>>

-----------------------------------------------------------------------------
(* handleDownloadPdf *)

DownloadClick ==
    /\ CanStart
    /\ ~js.downloadPdfBtnDisabled
    /\ LET content == getCurrentPreviewContent(js)
       IN  IF ~Truthy(content)
           THEN /\ js' = clickOutside(showError(js, "No content to download."))
                /\ Log("download_guard")
                /\ UNCHANGED inflight
           ELSE IF js.extractedData.isNull
           THEN /\ js' = clickOutside(catchError(updateState(js, State.GENERATING_PDF),
                                                 "Failed to generate PDF"))
                /\ Log("download_error")
                /\ UNCHANGED inflight
           ELSE /\ js' = clickOutside(updateState(js, State.GENERATING_PDF))
                /\ inflight' = Append(inflight,
                                      Entry("download", "remote", Null, Null, content))
                /\ Log("download_start")
    /\ UNCHANGED <<popup, storage, page, pageHighlight, now, overlap, contentVars>>

DownloadOk(i) ==
    /\ At(i, {"download"}, "remote")
    /\ js' = updateState(js, State.IDLE)
    /\ inflight' = Remove(inflight, i)
    /\ Log("download_ok")
    /\ UNCHANGED <<popup, storage, page, pageHighlight, now, overlap, contentVars>>

-----------------------------------------------------------------------------
(* handleAddToCalendar *)

\* if (!calendarEvents || calendarEvents.length === 0)
calendarGuardFails(j) == j.calendarEvents = Null \/ EventsLength(j.calendarEvents) = 0

AddToCalendarClick ==
    /\ CanStart
    /\ js.postDetectionUI
    /\ ~js.addToCalendarBtnDisabled
    /\ IF calendarGuardFails(js)
       THEN /\ js' = clickOutside(showError(js, "No calendar events to add. Please detect syllabus first."))
            /\ Log("calendar_guard")
            /\ UNCHANGED inflight
       ELSE /\ js' = clickOutside(updateState(js, State.ADDING_TO_CALENDAR))
            /\ inflight' = Append(inflight, Entry("calendar", "token", Null, Null, Null))
            /\ Log("calendar_start")
    /\ UNCHANGED <<popup, storage, page, pageHighlight, now, overlap, contentVars>>

Tokens == {Null, "token"}

\* faulty variant: the token is not tested
tokenMissing_Never(googleToken) == FALSE

\* if (!googleToken)
tokenMissing(googleToken) == ~Truthy(googleToken)

\* getGoogleOAuthToken has resolved (null on chrome.runtime.lastError)
CalendarToken(i, googleToken) ==
    /\ At(i, {"calendar"}, "token")
    /\ IF tokenMissing(googleToken) \/ js.extractedData.isNull
       THEN /\ js' = catchError(js, "Google authentication required")
            /\ inflight' = Remove(inflight, i)
            /\ Log("calendar_error")
       ELSE /\ js' = js
            /\ inflight' = [inflight EXCEPT ![i] =
                               Entry("calendar", "remote", Null, googleToken, js.calendarEvents)]
            /\ Log("calendar_request")
    /\ UNCHANGED <<popup, storage, page, pageHighlight, now, overlap, contentVars>>

CalendarOk(i) ==
    /\ At(i, {"calendar"}, "remote")
    /\ js' = updateState(js, State.SUCCESS)
    /\ inflight' = Remove(inflight, i)
    /\ Log("calendar_ok")
    /\ UNCHANGED <<popup, storage, page, pageHighlight, now, overlap, contentVars>>

-----------------------------------------------------------------------------
(* handleClearDetection, retry *)

\* click on Clear Detection: the clearHighlights message goes out only when
\* extractedData carries a tabId; otherwise clearSession runs at once
ClearDetectionClick ==
    /\ CanStart
    /\ js.postDetectionUI
    /\ js' = clickOutside(js)
    /\ IF HasTabId(js.extractedData)
       THEN /\ pageHighlight' = Null
            /\ inflight' = Append(inflight, Entry("clear", "message", Null, Null, Null))
            /\ UNCHANGED storage
       ELSE /\ storage' = clearSession(js, storage)
            /\ inflight' = Append(inflight, Entry("clear", "session", Null, Null, Null))
            /\ UNCHANGED pageHighlight
    /\ Log("clear_start")
    /\ UNCHANGED <<popup, page, now, overlap, contentVars>>

\* the content context has answered clearHighlights: clearSession
ClearMessageDone(i) ==
    /\ At(i, {"clear"}, "message")
    /\ storage' = clearSession(js, storage)
    /\ inflight' = SetPc(inflight, i, "session")
    /\ Log("clear_message")
    /\ UNCHANGED <<popup, js, page, pageHighlight, now, overlap, contentVars>>

\* chrome.storage.local.remove has answered: resetAllState, Idle, getPageInfo
ClearSessionDone(i) ==
    /\ At(i, {"clear"}, "session")
    /\ js' = updateState(resetAllState(js), State.IDLE)
    /\ inflight' = SetPc(inflight, i, "pageinfo")
    /\ Log("clear_done")
    /\ UNCHANGED <<popup, storage, page, pageHighlight, now, overlap, contentVars>>

\* click on Retry, shown with the error message
RetryClick ==
    /\ CanStart
    /\ js.errorText # Null
    /\ js' = clickOutside(updateState(resetAllState(js), State.IDLE))
    /\ inflight' = Append(inflight, Entry("retry", "pageinfo", Null, Null, Null))
    /\ Log("retry")
    /\ UNCHANGED <<popup, storage, page, pageHighlight, now, overlap, contentVars>>

-----------------------------------------------------------------------------
(* The orchestrator with its session store *)

InitPopup ==
    /\ popup = "closed"
    /\ js = InitJs
    /\ inflight = <<>>
    /\ storage = [k \in SessionKeys |-> <<>>]
    /\ page \in Pages
    /\ pageHighlight = Null
    /\ now = 0
    /\ overlap = FALSE
    /\ lastOp = "init"
    /\ scenario = "off"

\* the engine's last call before any call: nothing returned, logged,
\* searched or wrapped
NoCall ==
    [returned |-> <<>>, logged |-> <<>>, walked |-> 0, wrapped |-> <<>>,
     firstHighlight |-> FALSE, firstAt |-> <<>>, thrown |-> <<>>]

\* the content script's engine and detector, not part of this specification
NoEngine ==
    /\ dom = [head |-> <<>>, body |-> <<>>]
    /\ text0 = <<>>
    /\ hlLast = [op |-> "none", text |-> 0, before |-> 0,
                 reply |-> [success |-> FALSE], call |-> NoCall]
    /\ hlCalls = 0

NoDetector ==
    /\ pageText = <<>>
    /\ detection = <<>>

NoRouter == exchanges = <<>>

\* the content script just loaded: nothing selected, debounceTimer = null
NoWatcher ==
    watcher = [selection |-> <<>>, debounceTimer |-> <<>>, clock |-> 0,
               changes |-> 0, lastChange |-> 0, sent |-> <<>>, errors |-> 0]

\* the extraction functions are not part of this specification
NoExtractor ==
    extraction = [doc |-> <<>>, live |-> <<>>, result |-> [page |-> <<>>, main |-> <<>>],
                  input |-> <<>>, cleaned |-> <<>>]

Init == InitPopup /\ NoEngine /\ NoDetector /\ NoRouter /\ NoWatcher /\ NoExtractor

Next ==
    \/ OpenPopup
    \/ ClosePopup
    \/ \E d \in Deltas : Tick(d)
    \/ \E i \in 1..MaxInFlight + 1 : GetPageInfoDone(i)
    \/ \E i \in 1..MaxInFlight + 1 : restoreSession(i)
    \/ \E t \in SelectionTexts : SelectionChanged(t)
    \/ DetectClick
    \/ \E i \in 1..MaxInFlight + 1 : DetectTab(i)
    \/ \E i \in 1..MaxInFlight + 1, ok \in BOOLEAN : DetectScript(i, ok)
    \/ \E i \in 1..MaxInFlight + 1, sd \in SyllabusValues, ev \in EventLists \cup {Undef} :
          DetectRemoteOk(i, sd, ev)
    \/ \E i \in 1..MaxInFlight + 1 : DetectFinish(i)
    \/ \E i \in 1..MaxInFlight + 1 : RemoteFail(i)
    \/ SimplifyClick
    \/ \E i \in 1..MaxInFlight + 1, v \in SimplifiedValues : SimplifyOk(i, v)
    \/ toggleTranslateDropdown
    \/ \E l \in LanguageOptions : TranslateSelect(l)
    \/ \E i \in 1..MaxInFlight + 1 : TranslateOk(i)
    \/ ResetClick
    \/ DownloadClick
    \/ \E i \in 1..MaxInFlight + 1 : DownloadOk(i)
    \/ AddToCalendarClick
    \/ \E i \in 1..MaxInFlight + 1, tk \in Tokens : CalendarToken(i, tk)
    \/ \E i \in 1..MaxInFlight + 1 : CalendarOk(i)
    \/ ClearDetectionClick
    \/ \E i \in 1..MaxInFlight + 1 : ClearMessageDone(i)
    \/ \E i \in 1..MaxInFlight + 1 : ClearSessionDone(i)
    \/ RetryClick

Spec == Init /\ [][Next]_vars

-----------------------------------------------------------------------------
(* contentScript.js: the highlight engine.  Strings are sequences of       *)
(* one-character strings, so that length, substring and search are those   *)
(* of the code.                                                            *)

\* sentences of the long text, and text nodes of the long document
NumSentences == 101
\* calls of the engine in one behaviour
MaxCalls == 3

Min(a, b) == IF a <= b THEN a ELSE b

Fill(c, n) == [i \in 1..n |-> c]

Digit(k) == <<"0", "1", "2", "3", "4", "5", "6", "7", "8", "9">>[k + 1]

\* a sentence of n characters without punctuation or whitespace, numbered k
Sentence(k, n) ==
    <<Digit(k \div 100), Digit((k \div 10) % 10), Digit(k % 10)>> \o Fill("x", n - 3)

\* the texts a highlightText request carries: the long one is the
\* sentences 1..NumSentences, of 32 characters each, joined by ". "
LongText ==
    [i \in 1..NumSentences * 34 - 2 |->
        LET k == ((i - 1) \div 34) + 1
            at == ((i - 1) % 34) + 1
        IN  IF at <= 32 THEN Sentence(k, 32)[at] ELSE IF at = 33 THEN "." ELSE " "]

HLTexts ==
    << <<>>,
       Sentence(1, 49),
       Sentence(1, 50),
       <<" ">> \o Sentence(1, 31) \o <<".", " ", "\n">> \o Sentence(2, 30)
           \o <<" ", "\n", "\n", "\n", " ">> \o Sentence(3, 40) \o <<"!", " ">>,
       Sentence(4, 31) \o <<"?", " ", " ">> \o Sentence(5, 35) \o <<".", "\t">>
           \o Sentence(7, 31),
       Sentence(6, 200) \o <<".", "x">> \o Sentence(3, 31),
       LongText >>

\* nodes: a text node, a highlight span holding one text node (value is
\* that node's nodeValue; first is the class syllabus-kitty-highlight-first),
\* and an element without text
TextNode(v) == [tag |-> "#text", value |-> v, first |-> FALSE]
Span(v, f) == [tag |-> "SPAN", value |-> v, first |-> f]
Br == [tag |-> "BR", value |-> <<>>, first |-> FALSE]

\* document.body as the sequence of its child elements, each the sequence
\* of its child nodes
SmallBody ==
    << << TextNode(Sentence(1, 50) \o <<" ", "t", "a", "i", "l">>),
          TextNode(<<>>),
          TextNode(Sentence(3, 40)) >>,
       << TextNode(Sentence(4, 31) \o <<" ", "&", " ">> \o Sentence(5, 35)),
          Br,
          TextNode(Sentence(6, 70)),
          TextNode(<<".">>) >>,
       << TextNode(Sentence(1, 31)) >> >>

LongBody == [k \in 1..NumSentences |-> <<TextNode(Sentence(k, 32))>>]

PlainBody == << <<TextNode(<<"n", "o", " ", "m", "a", "t", "c", "h">>), Br>> >>

Bodies == {SmallBody, LongBody, PlainBody}

\* \s of the regular expression, and what trim() removes
Whitespace == {" ", "\t", "\n"}

Punctuation == {".", "!", "?"}

\* the last index of the run of characters of S that starts at i
RunEnd(text, i, S) ==
    CHOOSE j \in i..Len(text) :
        /\ \A k \in i..j : text[k] \in S
        /\ j = Len(text) \/ text[j + 1] \notin S

\* the matches <<first, last>> of /[.!?]\s+|\n\n+/ in text, scanned from the
\* left: a punctuation mark with the whitespace after it, or a run of two or
\* more newlines that no earlier match has consumed
Separators(text) ==
    LET n == Len(text)
        marks == {i \in 1..n - 1 : text[i] \in Punctuation /\ text[i + 1] \in Whitespace}
        byMark == {<<i, RunEnd(text, i + 1, Whitespace)>> : i \in marks}
        breaks == {i \in 1..n - 1 :
                     /\ text[i] = "\n" /\ text[i + 1] = "\n"
                     /\ i = 1 \/ text[i - 1] # "\n"
                     /\ \A m \in byMark : ~(m[1] < i /\ i <= m[2])}
    IN  byMark \cup {<<i, RunEnd(text, i, {"\n"})>> : i \in breaks}

\* s.trim()
trim(s) ==
    LET keep == {i \in 1..Len(s) : s[i] \notin Whitespace}
    IN  IF keep = {} THEN <<>>
        ELSE SubSeq(s, CHOOSE i \in keep : \A k \in keep : i <= k,
                       CHOOSE i \in keep : \A k \in keep : k <= i)

\* s.substring(0, n)
substring(s, n) == SubSeq(s, 1, Min(n, Len(s)))

\* a set of numbers as the sequence of its elements in increasing order
Ascending(S) ==
    LET rank == [x \in S |-> Cardinality({y \in S : y < x})]
    IN  [k \in 1..Cardinality(S) |-> CHOOSE x \in S : rank[x] = k - 1]

\* text.split(/[.!?]\s+|\n\n+/): the pieces between the matches, in order
split(text) ==
    LET seps == Separators(text)
        starts == Ascending({1} \cup {m[2] + 1 : m \in seps})
        stop(from) ==
            LET later == {m[1] : m \in {x \in seps : x[1] >= from}}
            IN  IF later = {} THEN Len(text) + 1
                ELSE CHOOSE i \in later : \A k \in later : i <= k
    IN  [k \in 1..Len(starts) |-> SubSeq(text, starts[k], stop(starts[k]) - 1)]

\* .map(s => s.trim()).filter(s => s.length > 30).map(s => s.substring(0, 150))
Phrases(text) ==
    LET pieces == split(text)
        trimmed == [k \in DOMAIN pieces |-> trim(pieces[k])]
        kept == SelectSeq(trimmed, LAMBDA s : Len(s) > 30)
    IN  [k \in DOMAIN kept |-> substring(kept[k], 150)]

\* node.nodeValue.includes(searchSnippet)
includes(value, snippet) ==
    \E i \in 1..Len(value) - Len(snippet) + 1 :
        SubSeq(value, i, i + Len(snippet) - 1) = snippet

\* the places <<element, child>> of the nodes of a body
Places(body) == UNION {{<<b, n>> : n \in DOMAIN body[b]} : b \in DOMAIN body}

\* document order
Precedes(p, q) == p[1] < q[1] \/ (p[1] = q[1] /\ p[2] <= q[2])

FirstPlace(S) == CHOOSE p \in S : \A q \in S : Precedes(p, q)

\* document.querySelectorAll('.syllabus-kitty-highlight')
Markers(body) ==
    UNION {{<<b, n>> : n \in {i \in DOMAIN body[b] : body[b][i].tag = "SPAN"}} : b \in DOMAIN body}

StyleId == "syllabus-kitty-highlight-styles"

\* injectHighlightStyles: one style element, appended to document.head
injectHighlightStyles(d) ==
    IF \E i \in DOMAIN d.head : d.head[i] = StyleId THEN d
    ELSE [d EXCEPT !.head = Append(@, StyleId)]

\* parent.normalize(): empty text nodes removed, adjacent text nodes merged
RECURSIVE normalize(_)
normalize(nodes) ==
    IF nodes = <<>> THEN <<>>
    ELSE LET h == Head(nodes)
             r == normalize(Tail(nodes))
         IN  IF h.tag # "#text" THEN <<h>> \o r
             ELSE IF h.value = <<>> THEN r
             ELSE IF r # <<>> /\ r[1].tag = "#text"
                  THEN <<TextNode(h.value \o r[1].value)>> \o Tail(r)
                  ELSE <<h>> \o r

\* faulty variant: the marker is removed together with the text it holds
unwrap_Remove(nodes, n) == SubSeq(nodes, 1, n - 1) \o SubSeq(nodes, n + 1, Len(nodes))

\* the children of the marker at n are moved before it, and it is removed
unwrap(nodes, n) == [nodes EXCEPT ![n] = TextNode(@.value)]

\* clearHighlights within one parent: each marker, in document order, is
\* unwrapped and the parent normalized
RECURSIVE clearChildren(_)
clearChildren(nodes) ==
    LET els == {n \in DOMAIN nodes : nodes[n].tag = "SPAN"}
    IN  IF els = {} THEN nodes
        ELSE clearChildren(normalize(unwrap(nodes, CHOOSE n \in els : \A k \in els : n <= k)))

\* clearHighlights: forEach over querySelectorAll's list; what it does to
\* one parent does not touch another, so the parents are taken one by one
clearHighlights(body) == [b \in DOMAIN body |-> clearChildren(body[b])]

\* const maxHighlights = 100
maxHighlights_Raised == 100 + 1

maxHighlights == 100

\* faulty variant: a node is wrapped whatever its parent is
wrapPhrase_NoParentCheck(acc, phrase, throwAt) ==
    LET searchSnippet == substring(phrase, 60)
        found == {p \in Places(acc.body) :
                    /\ acc.body[p[1]][p[2]].tag \in {"#text", "SPAN"}
                    /\ includes(acc.body[p[1]][p[2]].value, searchSnippet)}
    IN  IF Len(phrase) < 30 THEN acc
        ELSE IF found = {} THEN [acc EXCEPT !.walked = @ + 1]
        ELSE LET p == FirstPlace(found)
                 node == acc.body[p[1]][p[2]]
             IN  [acc EXCEPT !.walked = @ + 1,
                             !.firstHighlight = TRUE,
                             !.tried = @ + 1,
                             !.body[p[1]][p[2]] = Span(node.value, node.first \/ ~acc.firstHighlight),
                             !.highlightCount = @ + 1,
                             !.wrapped = Append(@, [phrase |-> acc.walked + 1, at |-> p]),
                             !.firstAt = IF acc.firstHighlight THEN @ ELSE p]

\* faulty variant: a wrap that throws is counted as a highlight
wrapPhrase_CountsFailure(acc, phrase, throwAt) ==
    LET searchSnippet == substring(phrase, 60)
        found == {p \in Places(acc.body) :
                    /\ acc.body[p[1]][p[2]].tag \in {"#text", "SPAN"}
                    /\ includes(acc.body[p[1]][p[2]].value, searchSnippet)}
    IN  IF Len(phrase) < 30 THEN acc
        ELSE IF found = {} THEN [acc EXCEPT !.walked = @ + 1]
        ELSE LET p == FirstPlace(found)
                 node == acc.body[p[1]][p[2]]
                 span == Span(node.value, ~acc.firstHighlight)
                 matched == [acc EXCEPT !.walked = @ + 1, !.firstHighlight = TRUE]
             IN  IF node.tag = "SPAN" THEN matched
                 ELSE IF acc.tried + 1 = throwAt
                      THEN [matched EXCEPT !.tried = @ + 1,
                                           !.highlightCount = @ + 1,
                                           !.thrown = Append(@, acc.walked + 1)]
                      ELSE [matched EXCEPT !.tried = @ + 1,
                                           !.body[p[1]][p[2]] = span,
                                           !.highlightCount = @ + 1,
                                           !.wrapped = Append(@, [phrase |-> acc.walked + 1, at |-> p]),
                                           !.firstAt = IF acc.firstHighlight THEN @ ELSE p]

\* the body of the loop over the phrases, for one phrase.  acc holds the
\* body, highlightCount, whether firstHighlight is assigned and the place
\* where its span was inserted (<<>> when it was not), the number of
\* wraps tried, the number of phrases a tree walker was created for, and
\* the wraps done, each with the number of its phrase and the place of its
\* text node; the wrap numbered throwAt throws at parent.insertBefore, and
\* thrown holds the numbers of the phrases whose wrap threw
wrapPhrase(acc, phrase, throwAt) ==
    LET searchSnippet == substring(phrase, 60)
        found == {p \in Places(acc.body) :
                    /\ acc.body[p[1]][p[2]].tag \in {"#text", "SPAN"}
                    /\ includes(acc.body[p[1]][p[2]].value, searchSnippet)}
    IN  IF Len(phrase) < 30 THEN acc
        ELSE IF found = {} THEN [acc EXCEPT !.walked = @ + 1]
        ELSE LET p == FirstPlace(found)
                 node == acc.body[p[1]][p[2]]
                 span == Span(node.value, ~acc.firstHighlight)
                 matched == [acc EXCEPT !.walked = @ + 1, !.firstHighlight = TRUE]
             IN  IF node.tag = "SPAN" THEN matched
                 ELSE IF acc.tried + 1 = throwAt
                      THEN [matched EXCEPT !.tried = @ + 1,
                                           !.thrown = Append(@, acc.walked + 1)]
                      ELSE [matched EXCEPT !.tried = @ + 1,
                                           !.body[p[1]][p[2]] = span,
                                           !.highlightCount = @ + 1,
                                           !.wrapped = Append(@, [phrase |-> acc.walked + 1, at |-> p]),
                                           !.firstAt = IF acc.firstHighlight THEN @ ELSE p]

\* for (const phrase of phrases), over the phrases lo..hi in order (the
\* range is halved to keep the evaluation shallow); once highlightCount has
\* reached maxHighlights the loop has ended and nothing more happens
RECURSIVE wrapPhrases(_, _, _, _, _)
wrapPhrases(acc, phrases, lo, hi, throwAt) ==
    IF lo > hi \/ acc.highlightCount >= maxHighlights THEN acc
    ELSE IF lo = hi THEN wrapPhrase(acc, phrases[lo], throwAt)
    ELSE LET mid == (lo + hi) \div 2
             left == wrapPhrases(acc, phrases, lo, mid, throwAt)
         IN  wrapPhrases(left, phrases, mid + 1, hi, throwAt)

\* !textToHighlight || textToHighlight.length < 50
tooShort(text) == text = <<>> \/ Len(text) < 50

\* faulty variant: the markers of earlier calls are left in the document
highlightLoop_NoClear(d, text, throwAt) ==
    LET phrases == Phrases(text)
    IN  wrapPhrases([body |-> d.body, highlightCount |-> 0,
                     firstHighlight |-> FALSE, firstAt |-> <<>>, tried |-> 0,
                     walked |-> 0, wrapped |-> <<>>, thrown |-> <<>>],
                    phrases, 1, Len(phrases), throwAt)

\* highlightExtractedText(textToHighlight), as the loop leaves its variables
highlightLoop(d, text, throwAt) ==
    LET phrases == Phrases(text)
    IN  wrapPhrases([body |-> clearHighlights(d.body), highlightCount |-> 0,
                     firstHighlight |-> FALSE, firstAt |-> <<>>, tried |-> 0,
                     walked |-> 0, wrapped |-> <<>>, thrown |-> <<>>],
                    phrases, 1, Len(phrases), throwAt)

highlightExtractedText(d, text, throwAt) ==
    IF tooShort(text) THEN d
    ELSE [injectHighlightStyles(d) EXCEPT !.body = highlightLoop(d, text, throwAt).body]

\* what a call of highlightExtractedText hands back and leaves behind: the
\* function has no return statement, so the sequence of the values it
\* returns is empty; console.log prints highlightCount; and scrollIntoView
\* is called on firstHighlight when it is assigned
highlightOutcome(d, text, throwAt) ==
    IF tooShort(text) THEN NoCall
    ELSE LET acc == highlightLoop(d, text, throwAt)
         IN  [returned |-> <<>>, logged |-> <<acc.highlightCount>>,
              walked |-> acc.walked, wrapped |-> acc.wrapped,
              firstHighlight |-> acc.firstHighlight, firstAt |-> acc.firstAt,
              thrown |-> acc.thrown]

\* the sequences lo..hi of seqs, concatenated
RECURSIVE Concat(_, _, _)
Concat(seqs, lo, hi) ==
    IF lo > hi THEN <<>>
    ELSE IF lo = hi THEN seqs[lo]
    ELSE Concat(seqs, lo, (lo + hi) \div 2) \o Concat(seqs, ((lo + hi) \div 2) + 1, hi)

\* document.body.textContent
textContent(body) ==
    LET inner == [b \in DOMAIN body |->
                    Concat([n \in DOMAIN body[b] |-> body[b][n].value], 1, Len(body[b]))]
    IN  Concat(inner, 1, Len(inner))

\* the wrap that may throw: none, the first, the second
Throws == {0, 1, 2}

\* the listener's request action 'highlightText'
HighlightText(t, throwAt) ==
    /\ hlCalls < MaxCalls
    /\ dom' = highlightExtractedText(dom, HLTexts[t], throwAt)
    /\ hlLast' = [op |-> "highlightText", text |-> t,
                  before |-> Cardinality(Markers(dom.body)),
                  reply |-> [success |-> TRUE],
                  call |-> highlightOutcome(dom, HLTexts[t], throwAt)]
    /\ hlCalls' = hlCalls + 1
    /\ UNCHANGED <<text0, popupVars, detectorVars, routerVars, watcherVars, extractorVars>>

\* the listener's request action 'clearHighlights'
ClearHighlights ==
    /\ hlCalls < MaxCalls
    /\ dom' = [dom EXCEPT !.body = clearHighlights(@)]
    /\ hlLast' = [op |-> "clearHighlights", text |-> 0,
                  before |-> Cardinality(Markers(dom.body)),
                  reply |-> [success |-> TRUE], call |-> NoCall]
    /\ hlCalls' = hlCalls + 1
    /\ UNCHANGED <<text0, popupVars, detectorVars, routerVars, watcherVars, extractorVars>>

\* the popup is not part of this specification
NoPopup ==
    /\ popup = "closed"
    /\ js = InitJs
    /\ inflight = <<>>
    /\ storage = [k \in SessionKeys |-> <<>>]
    /\ page = CHOOSE p \in Pages : p.kind = "html"
    /\ pageHighlight = Null
    /\ now = 0
    /\ overlap = FALSE
    /\ lastOp = "init"
    /\ scenario = "off"

InitEngine ==
    /\ dom \in {[head |-> <<>>, body |-> b] : b \in Bodies}
    /\ text0 = textContent(dom.body)
    /\ hlLast = [op |-> "none", text |-> 0, before |-> 0,
                 reply |-> [success |-> FALSE], call |-> NoCall]
    /\ hlCalls = 0

InitHL == NoPopup /\ InitEngine /\ NoDetector /\ NoRouter /\ NoWatcher /\ NoExtractor

NextHL ==
    \/ \E t \in DOMAIN HLTexts, throwAt \in Throws : HighlightText(t, throwAt)
    \/ ClearHighlights

SpecHL == InitHL /\ [][NextHL]_vars

-----------------------------------------------------------------------------
(* contentScript.js: the syllabus detector *)

UpperCase ==
    <<"A", "B", "C", "D", "E", "F", "G", "H", "I", "J", "K", "L", "M",
      "N", "O", "P", "Q", "R", "S", "T", "U", "V", "W", "X", "Y", "Z">>

LowerCase ==
    <<"a", "b", "c", "d", "e", "f", "g", "h", "i", "j", "k", "l", "m",
      "n", "o", "p", "q", "r", "s", "t", "u", "v", "w", "x", "y", "z">>

\* faulty variant: the page text is searched as it is written
toLowerCase_AsIs(s) == s

\* s.toLowerCase()
toLowerCase(s) ==
    [i \in DOMAIN s |->
        IF \E j \in DOMAIN UpperCase : UpperCase[j] = s[i]
        THEN LowerCase[CHOOSE j \in DOMAIN UpperCase : UpperCase[j] = s[i]]
        ELSE s[i]]

syllabusIndicators ==
    <<
       <<"s", "y", "l", "l", "a", "b", "u", "s">>,
       <<"c", "o", "u", "r", "s", "e", " ", "o", "u", "t", "l", "i", "n", "e">>,
       <<"c", "o", "u", "r", "s", "e", " ", "s", "c", "h", "e", "d", "u", "l", "e">>,
       <<"l", "e", "a", "r", "n", "i", "n", "g", " ", "o", "b", "j", "e", "c", "t", "i", "v", "e", "s">>,
       <<"c", "o", "u", "r", "s", "e", " ", "o", "b", "j", "e", "c", "t", "i", "v", "e", "s">>,
       <<"g", "r", "a", "d", "i", "n", "g", " ", "p", "o", "l", "i", "c", "y">>,
       <<"a", "t", "t", "e", "n", "d", "a", "n", "c", "e", " ", "p", "o", "l", "i", "c", "y">>,
       <<"r", "e", "q", "u", "i", "r", "e", "d", " ", "t", "e", "x", "t", "b", "o", "o", "k">>,
       <<"o", "f", "f", "i", "c", "e", " ", "h", "o", "u", "r", "s">>,
       <<"i", "n", "s", "t", "r", "u", "c", "t", "o", "r", ":">>,
       <<"p", "r", "o", "f", "e", "s", "s", "o", "r", ":">>,
       <<"p", "r", "e", "r", "e", "q", "u", "i", "s", "i", "t", "e", "s">>,
       <<"c", "o", "u", "r", "s", "e", " ", "d", "e", "s", "c", "r", "i", "p", "t", "i", "o", "n">>,
       <<"a", "s", "s", "i", "g", "n", "m", "e", "n", "t", "s">>,
       <<"f", "i", "n", "a", "l", " ", "e", "x", "a", "m">>,
       <<"m", "i", "d", "t", "e", "r", "m">>
    >>

\* Math.min over quotients <<numerator, denominator>>, denominators positive
MathMin(x, y) == IF x[1] * y[2] <= y[1] * x[2] THEN x ELSE y

\* detectSyllabusContent(), with document.body.textContent given
detectSyllabusContent(textContentOfBody) ==
    LET lowered == toLowerCase(textContentOfBody)
        matchedIndicators ==
            SelectSeq(syllabusIndicators, LAMBDA indicator : includes(lowered, indicator))
    IN  [isSyllabus |-> Len(matchedIndicators) >= 3,
         confidence |-> MathMin(<<Len(matchedIndicators), 5>>, <<1, 1>>),
         matchedTerms |-> matchedIndicators]

\* text nodes a page's body may hold, one after the other
Fragments ==
    <<
       <<"a", "s", "s", "i", "g", "n", "m", "e", "n", "t">>,
       <<"S", "Y", "L", "L", "A", "B", "U", "S", " ">>,
       <<"O", "f", "f", "i", "c", "e", " ", "H", "o", "u", "r", "s", " ">>,
       <<"g", "r", "a", "d", "i", "n", "g", " ", "p", "o", "l", "i", "c", "y", ".", " ">>,
       <<"I", "n", "s", "t", "r", "u", "c", "t", "o", "r", ":", " ">>,
       <<"F", "i", "n", "a", "l", " ", " ", "E", "x", "a", "m", " ">>,
       <<"f", "i", "n", "a", "l", " ", "e", "x", "a", "m">>,
       <<"M", "i", "d", "T", "e", "r", "m">>,
       <<"p", "r", "e", "r", "e", "q", "u", "i", "s", "i", "t", "e", "s", " ">>,
       <<"c", "o", "u", "r", "s", "e", " ", " ", "o", "u", "t", "l", "i", "n", "e", " ">>,
       <<"P", "r", "o", "f", "e", "s", "s", "o", "r">>
    >>

\* the text content of a body holding the text nodes chosen by S
PageTextOf(S) ==
    LET chosen == SelectSeq([i \in DOMAIN Fragments |-> IF i \in S THEN Fragments[i] ELSE <<>>],
                            LAMBDA f : f # <<>>)
    IN  Concat(chosen, 1, Len(chosen))

\* the page, empty so far, gets its content
LoadPage(S) ==
    /\ pageText = <<>>
    /\ detection = <<>>
    /\ pageText' = PageTextOf(S)
    /\ detection' = <<>>
    /\ UNCHANGED <<popupVars, engineVars, routerVars, watcherVars, extractorVars>>

\* the listener's request action 'extractContent' runs the detector
DetectSyllabus ==
    /\ detection = <<>>
    /\ detection' = <<detectSyllabusContent(pageText)>>
    /\ UNCHANGED <<pageText, popupVars, engineVars, routerVars, watcherVars, extractorVars>>

InitDet == NoPopup /\ NoEngine /\ NoDetector /\ NoRouter /\ NoWatcher /\ NoExtractor

NextDet ==
    \/ \E S \in SUBSET DOMAIN Fragments : LoadPage(S)
    \/ DetectSyllabus

SpecDet == InitDet /\ [][NextDet]_vars

-----------------------------------------------------------------------------
(* Properties of the orchestrator and the session store (checked under Spec) *)

Top(h) == h[Len(h)]

Quiescent == popup = "open" /\ inflight = <<>>

CurrentKey == getSessionKey(js.currentPageUrl)

\* the session fields of ExtractionSession held in memory
SessionFields(j) ==
    <<j.importedId, j.syllabusData, j.calendarEvents, j.simplifiedMarkdown,
      j.translatedMarkdown, j.currentLanguage, j.currentPreviewType, j.previewHistory>>

\* C1: after Detect, Simplify, Translate("fr") and one Reset (Scenario B) the
\* preview shows the simplified content with type 'simplified',
\* translatedMarkdown is absent and simplifiedMarkdown is the Simplify result
C1_ScenarioB ==
    scenario = "reset done" =>
        /\ js.previewHistory # <<>>
        /\ Top(js.previewHistory).type = "simplified"
        /\ Top(js.previewHistory).content \in SimplifiedValues
        /\ js.simplifiedMarkdown = Top(js.previewHistory).content
        /\ js.previewText = js.simplifiedMarkdown
        /\ js.currentPreviewType = "simplified"
        /\ js.translatedMarkdown = Null

C1_Witness ==
    /\ scenario = "reset done"
    /\ lastOp = "reset"
    /\ js.previewText \in SimplifiedValues

\* C2: once preview content is shown, the history is non-empty and its top
\* entry has the type and the content of the displayed preview (stated for
\* the resting popup: Idle, no handler suspended)
C2_TopIsPreview ==
    (Quiescent /\ js.currentState = State.IDLE /\ js.previewText # Empty) =>
        /\ Len(js.previewHistory) >= 1
        /\ Top(js.previewHistory).type = js.currentPreviewType
        /\ Top(js.previewHistory).content = js.previewText

RestoreLabels == {"restore_none", "restore_expired", "restore_ok"}

\* C3: a read of the session store never restores a record older than 24
\* hours: nothing in memory changes and the record is deleted in that read;
\* a record of 24 hours or less is restored
C3_Expiry ==
    [][ (lastOp' \in RestoreLabels /\ storage[CurrentKey] # <<>>) =>
          LET session == storage[CurrentKey][1]
          IN  IF now - session.timestamp > 24 * 60 * 60 * 1000
              THEN /\ js' = js
                   /\ storage'[CurrentKey] = <<>>
                   /\ pageHighlight' = pageHighlight
              ELSE /\ SessionFields(js') =
                        <<session.importedId, session.syllabusData, session.calendarEvents,
                          session.simplifiedMarkdown, session.translatedMarkdown,
                          session.currentLanguage, session.currentPreviewType,
                          session.previewHistory>>
                   /\ js'.extractedData = session.extractedData
                   /\ js'.postDetectionUI
                   /\ storage' = storage ]_vars

C3_Witness ==
    /\ lastOp = "restore_expired"
    /\ storage[CurrentKey] = <<>>
    /\ js.importedId = Null
    /\ now > maxAge

ResetLabels == {"reset", "reset_noop"}

\* C7: Reset with at most one history entry changes nothing: history,
\* preview, artifacts, language, workflow state, store, page, requests
C7_ResetNoop ==
    [][ (lastOp' \in ResetLabels /\ Len(js.previewHistory) <= 1) =>
          /\ SessionFields(js') = SessionFields(js)
          /\ js'.previewText = js.previewText
          /\ js'.currentState = js.currentState
          /\ js'.extractedData = js.extractedData
          /\ inflight' = inflight
          /\ storage' = storage
          /\ pageHighlight' = pageHighlight ]_vars

C7_Witness ==
    /\ lastOp = "reset_noop"
    /\ Len(js.previewHistory) = 1
    /\ ~js.resetBtnDisabled

\* C8: when ClearDetection has run, the page's highlights are cleared, the
\* stored session of the page is deleted and memory is back to its initial
\* values, in Idle with the pre-detection UI
C8_ClearDetection ==
    lastOp = "clear_done" =>
        /\ pageHighlight = Null
        /\ storage[CurrentKey] = <<>>
        /\ SessionFields(js) = SessionFields(InitJs)
        /\ js.currentState = State.IDLE
        /\ ~js.postDetectionUI

StepLabels == {"detect_finish", "simplify_ok", "translate_ok", "reset"}

\* C9: after each completed step (Detect, Simplify, Translate, Reset) the
\* record stored for the page equals the session in memory
C9_Persisted ==
    (Quiescent /\ lastOp \in StepLabels) =>
        /\ storage[CurrentKey] # <<>>
        /\ LET session == storage[CurrentKey][1]
           IN  /\ session.simplifiedMarkdown = js.simplifiedMarkdown
               /\ session.translatedMarkdown = js.translatedMarkdown
               /\ session.currentLanguage = js.currentLanguage
               /\ session.currentPreviewType = js.currentPreviewType
               /\ session.previewHistory = js.previewHistory

SimplifyLabels == {"simplify_guard", "simplify_error", "simplify_start"}
TranslateLabels == {"translate_guard", "translate_base", "translate_start"}
CalendarLabels == {"calendar_guard", "calendar_start"}
DownloadLabels == {"download_guard", "download_error", "download_start"}

\* an action invoked without its prerequisite artifact
GuardFailure ==
    \/ lastOp' \in SimplifyLabels /\ ~Truthy(js.syllabusData)
    \/ lastOp' \in TranslateLabels /\ ~Truthy(js.simplifiedMarkdown)
    \/ lastOp' \in CalendarLabels
         /\ (js.calendarEvents = Null \/ js.calendarEvents = "[]")
    \/ lastOp' \in DownloadLabels /\ ~Truthy(getCurrentPreviewContent(js))

\* C10: a guard failure only shows a message: no change of workflow state,
\* of any session field or of the history, and no request is issued
C10_GuardFailure ==
    [][ GuardFailure =>
          /\ js'.errorText # Null
          /\ js'.currentState = js.currentState
          /\ SessionFields(js') = SessionFields(js)
          /\ js'.extractedData = js.extractedData
          /\ js'.previewText = js.previewText
          /\ inflight' = inflight
          /\ storage' = storage
          /\ pageHighlight' = pageHighlight ]_vars

C10_Witness ==
    /\ lastOp = "simplify_guard"
    /\ js.errorText # Null
    /\ js.syllabusData = Null
    /\ js.currentState = State.IDLE

\* C11: once the workflow state is Error, the only step of the open popup
\* that leaves Error is the retry, which ends in Idle with the session
\* fields reset and getPageInfo started
C11_ErrorExit ==
    [][ (popup = "open" /\ popup' = "open"
         /\ js.currentState = State.ERROR /\ js'.currentState # State.ERROR) =>
          /\ lastOp' = "retry"
          /\ js'.currentState = State.IDLE
          /\ SessionFields(js') = SessionFields(InitJs)
          /\ \E i \in DOMAIN inflight' : inflight'[i].pc = "pageinfo" ]_vars

\* the workflow states the orchestrator declares, Extracting included
DeclaredStates ==
    {"idle", "detecting", "extracting", "simplifying", "translating",
     "adding", "generating", "success", "error"}

\* C12: the workflow state is always one of the declared states, never an
\* undefined value, and it is Idle initially
C12_DeclaredState ==
    /\ js.currentState \in DeclaredStates
    /\ lastOp = "init" => js.currentState = "idle"

\* C13: a translated artifact is present only with a simplified artifact,
\* and a simplified artifact only with the syllabusData of a completed Detect
C13_ArtifactOrder ==
    /\ Truthy(js.translatedMarkdown) => Truthy(js.simplifiedMarkdown)
    /\ Truthy(js.simplifiedMarkdown) => Truthy(js.syllabusData)

-----------------------------------------------------------------------------
(* The orchestrator when the user does not wait for a handler to end: the  *)
(* popup opened on the PDF page, Detect, Simplify and Clear Detection      *)

ConcPage == [url |-> UrlB, kind |-> "pdf", text |-> Empty, embeddedPdfUrl |-> Undef]

InitConc ==
    /\ popup = "closed"
    /\ js = InitJs
    /\ inflight = <<>>
    /\ storage = [k \in SessionKeys |-> <<>>]
    /\ page = ConcPage
    /\ pageHighlight = Null
    /\ now = 0
    /\ overlap = TRUE
    /\ lastOp = "init"
    /\ scenario = "off"
    /\ NoEngine
    /\ NoDetector
    /\ NoRouter /\ NoWatcher /\ NoExtractor

NextConc ==
    \/ OpenPopup
    \/ \E i \in 1..MaxInFlight + 1 : GetPageInfoDone(i)
    \/ \E i \in 1..MaxInFlight + 1 : restoreSession(i)
    \/ DetectClick
    \/ \E i \in 1..MaxInFlight + 1 : DetectTab(i)
    \/ \E i \in 1..MaxInFlight + 1, ev \in EventLists : DetectRemoteOk(i, "syllabus data", ev)
    \/ SimplifyClick
    \/ \E i \in 1..MaxInFlight + 1, v \in SimplifiedValues : SimplifyOk(i, v)
    \/ ClearDetectionClick
    \/ \E i \in 1..MaxInFlight + 1 : ClearMessageDone(i)
    \/ \E i \in 1..MaxInFlight + 1 : ClearSessionDone(i)

SpecConc == InitConc /\ [][NextConc]_vars

\* the Simplify calls that have reached the remote service and are unanswered
SimplifyOutstanding ==
    {i \in DOMAIN inflight : inflight[i].op = "simplify" /\ inflight[i].pc = "remote"}

\* C14: two Simplify requests are never outstanding at the remote service at
\* the same time, whatever the user does while one is outstanding
C14_OneSimplify == Cardinality(SimplifyOutstanding) <= 1

\* the steps in which handleDetect goes on after its extraction step
DetectContinues == {"detect_remote_ok", "detect_finish", "detect_fail", "detect_error"}

\* C15: when extractHtmlContent has failed on an HTML page, the step with which
\* handleDetect goes on leaves the orchestrator in Error with a message,
\* stores no importId, syllabusData or calendarEvents, pushes no history entry
\* and persists no session
C15_ExtractionFailure ==
    [][ (lastOp = "detect_script_fail" /\ lastOp' \in DetectContinues) =>
          /\ js'.currentState = State.ERROR
          /\ js'.errorText # Null
          /\ js'.importedId = js.importedId
          /\ js'.syllabusData = js.syllabusData
          /\ js'.calendarEvents = js.calendarEvents
          /\ js'.previewHistory = js.previewHistory
          /\ storage' = storage ]_vars

\* the step in which the remote extraction service answers a Detect with success
DetectAnswered ==
    /\ lastOp' \in {"detect_remote_ok", "detect_finish"}
    /\ \E i \in DOMAIN inflight : inflight[i].op = "detect" /\ inflight[i].pc = "remote"

\* the result is stored and exactly one 'original' entry is pushed
DetectStored ==
    /\ js'.importedId = "id1"
    /\ js'.syllabusData \in SyllabusValues
    /\ js'.calendarEvents \in EventLists
    /\ Len(js'.previewHistory) = Len(js.previewHistory) + 1
    /\ SubSeq(js'.previewHistory, 1, Len(js.previewHistory)) = js.previewHistory
    /\ Top(js'.previewHistory).type = "original"

\* the end of a successful Detect: Idle, the session persisted under the page
\* key, Simplify, Add-to-Calendar and Download enabled, Translate disabled
DetectEnded ==
    /\ js'.currentState = State.IDLE
    /\ js'.importedId = "id1"
    /\ storage'[getSessionKey(page.url)] = <<SessionData(js', now)>>
    /\ ~js'.simplifyBtnDisabled
    /\ ~js'.addToCalendarBtnDisabled
    /\ ~js'.downloadPdfBtnDisabled
    /\ js'.translateBtnDisabled

\* C16 as stated: a Detect answered with success stores the result, pushes one
\* 'original' entry, always sends a highlight request for the extracted text,
\* and ends in Idle with the session persisted and the controls set
C16_DetectSuccess ==
    [][ /\ DetectAnswered =>
            /\ DetectStored
            /\ Truthy(pageHighlight')
            /\ pageHighlight' = js.extractedData.text
        /\ lastOp' = "detect_finish" => DetectEnded ]_vars

\* C16, amended: as C16, but the highlight request is sent only when the
\* extracted text is not empty (it is empty or absent on a PDF page and after
\* a failed extraction); otherwise no request is sent
C16_DetectSuccess_Amended ==
    [][ /\ DetectAnswered =>
            /\ DetectStored
            /\ IF Truthy(js.extractedData.text)
               THEN pageHighlight' = js.extractedData.text
               ELSE pageHighlight' = pageHighlight
        /\ lastOp' = "detect_finish" => DetectEnded ]_vars

C16_Witness ==
    /\ lastOp = "detect_finish"
    /\ page.kind = "html"
    /\ pageHighlight = PageText
    /\ js.currentState = State.IDLE
    /\ Len(js.previewHistory) = 1
    /\ storage[CurrentKey] # <<>>

-----------------------------------------------------------------------------
(* The session store across navigation: the tab is navigated, while the    *)
(* popup is closed, between URLs with and without query and fragment       *)

Navigate(p) ==
    /\ popup = "closed"
    /\ p # page
    /\ page' = p
    /\ Log("navigate")
    /\ UNCHANGED <<popup, js, inflight, storage, pageHighlight, now, overlap, contentVars>>

InitNav ==
    /\ popup = "closed"
    /\ js = InitJs
    /\ inflight = <<>>
    /\ storage = [k \in SessionKeys |-> <<>>]
    /\ page \in NavPages
    /\ pageHighlight = Null
    /\ now = 0
    /\ overlap = FALSE
    /\ lastOp = "init"
    /\ scenario = "off"
    /\ NoEngine
    /\ NoDetector
    /\ NoRouter /\ NoWatcher /\ NoExtractor

NextNav ==
    \/ OpenPopup
    \/ ClosePopup
    \/ \E p \in NavPages : Navigate(p)
    \/ \E d \in Deltas : Tick(d)
    \/ \E i \in 1..MaxInFlight + 1 : GetPageInfoDone(i)
    \/ \E i \in 1..MaxInFlight + 1 : restoreSession(i)
    \/ DetectClick
    \/ \E i \in 1..MaxInFlight + 1 : DetectTab(i)
    \/ \E i \in 1..MaxInFlight + 1, ev \in EventLists : DetectRemoteOk(i, "syllabus data", ev)
    \/ \E i \in 1..MaxInFlight + 1 : RemoteFail(i)

SpecNav == InitNav /\ [][NextNav]_vars

\* the URL with everything from the first '?' or '#' removed
Stripped(url) ==
    IF \E i \in 1..Len(url) : url[i] \in {"?", "#"}
    THEN SubSeq(url, 1, (CHOOSE i \in 1..Len(url) :
                            /\ url[i] \in {"?", "#"}
                            /\ \A k \in 1..(i - 1) : url[k] \notin {"?", "#"}) - 1)
    ELSE url

\* the sessions saved, within the last 24 hours, on a URL whose stripped form
\* is that of the page
SavedForPage ==
    {k \in SessionKeys :
        /\ storage[k] # <<>>
        /\ Stripped(storage[k][1].extractedData.url) = Stripped(page.url)
        /\ now - storage[k][1].timestamp <= maxAge}

\* C17: every stored session is kept under the stripped URL it was saved on;
\* when the popup opens, a session saved within 24 hours on a URL with the
\* page's stripped form is restored with the fields that were saved, and no
\* session is restored otherwise
C17_SessionKey ==
    [][ /\ \A k \in SessionKeys : storage'[k] # <<>> =>
              k = <<STORAGE_KEY_PREFIX>> \o Stripped(storage'[k][1].extractedData.url)
        /\ lastOp' \in RestoreLabels =>
              IF SavedForPage # {}
              THEN /\ lastOp' = "restore_ok"
                   /\ \E k \in SavedForPage :
                         SessionFields(js') = SessionFields(storage[k][1])
              ELSE lastOp' # "restore_ok" /\ SessionFields(js') = SessionFields(InitJs) ]_vars

C17_Witness ==
    /\ lastOp = "restore_ok"
    /\ \E k \in SessionKeys :
          /\ storage[k] # <<>>
          /\ storage[k][1].extractedData.url # page.url
          /\ SessionFields(js) = SessionFields(storage[k][1])

\* a page whose stripped URL differs from that of the one stored session
C17_WitnessOther ==
    /\ lastOp = "restore_none"
    /\ \E k \in SessionKeys :
          /\ storage[k] # <<>>
          /\ Stripped(storage[k][1].extractedData.url) # Stripped(page.url)

-----------------------------------------------------------------------------
(* Session load: the popup opens on a page whose slot of the store holds   *)
(* no record, a record as saveSession writes it, or a record lacking a     *)
(* field (written by another version, or damaged)                          *)

Without(r, f) == [k \in (DOMAIN r) \ {f} |-> r[k]]

\* the record saveSession writes after a Detect on page p
SampleSession(p) ==
    SessionData(
        [InitJs EXCEPT
            !.extractedData = [EmptyData EXCEPT !.tabId = TabId, !.url = p.url,
                                                !.type = "text", !.text = PageText],
            !.importedId = "id1",
            !.syllabusData = "syllabus data",
            !.calendarEvents = "[e1]",
            !.previewText = PageText,
            !.previewHistory = <<[type |-> "original", content |-> PageText,
                                  language |-> "en"]>>],
        0)

StoredSlots(p) ==
    { <<>>,
      <<SampleSession(p)>>,
      <<Without(SampleSession(p), "timestamp")>>,
      <<Without(SampleSession(p), "extractedData")>>,
      <<[SampleSession(p) EXCEPT !.extractedData = NullData]>> }

InitLoad ==
    /\ popup = "closed"
    /\ js = InitJs
    /\ inflight = <<>>
    /\ page \in Pages
    /\ \E slot \in StoredSlots(page) :
          storage = [k \in SessionKeys |->
                        IF k = getSessionKey(page.url) THEN slot ELSE <<>>]
    /\ pageHighlight = Null
    /\ now = 0
    /\ overlap = FALSE
    /\ lastOp = "init"
    /\ scenario = "off"
    /\ NoEngine
    /\ NoDetector
    /\ NoRouter /\ NoWatcher /\ NoExtractor

NextLoad ==
    \/ OpenPopup
    \/ ClosePopup
    \/ \E d \in Deltas : Tick(d)
    \/ \E i \in 1..MaxInFlight + 1 : GetPageInfoDone(i)
    \/ \E i \in 1..MaxInFlight + 1 : restoreSession(i)
    \/ SimplifyClick
    \/ \E i \in 1..MaxInFlight + 1, v \in SimplifiedValues : SimplifyOk(i, v)
    \/ \E i \in 1..MaxInFlight + 1 : RemoteFail(i)
    \/ ClearDetectionClick
    \/ \E i \in 1..MaxInFlight + 1 : ClearMessageDone(i)
    \/ \E i \in 1..MaxInFlight + 1 : ClearSessionDone(i)

SpecLoad == InitLoad /\ [][NextLoad]_vars

\* no record, or a record lacking the extraction data or the timestamp
MissingOrMalformed(slot) ==
    \/ slot = <<>>
    \/ {"extractedData", "timestamp"} \ DOMAIN slot[1] # {}

\* C18: a session load that finds no record, or a record lacking the
\* extraction data or the timestamp, reports absent, restores no in-memory
\* field, raises no error and does not move the orchestrator to Error
C18_MalformedAbsent ==
    [][ (lastOp' \in RestoreLabels /\ MissingOrMalformed(storage[CurrentKey])) =>
          /\ lastOp' = "restore_none"
          /\ js' = js
          /\ js'.currentState # State.ERROR
          /\ js'.errorText = Null ]_vars

-----------------------------------------------------------------------------
(* Service worker: the chrome.runtime.onMessage listener (message router)  *)
(* and handleExtractPage.  An exchange is a message received, the replies  *)
(* given through sendResponse and what the listener sent on.               *)

KnownTypes ==
    {"EXTRACT_PAGE", "OPEN_APP", "SELECTION_CHANGED", "HIGHLIGHT_TEXT", "CLEAR_HIGHLIGHTS"}

\* types the listener has no case for: the values of MessageType, and a
\* message without a type
OtherTypes == {"openApp", "extractContent", Undef}

RouterMessages ==
    {[type |-> t, tabId |-> tb] :
        t \in {"HIGHLIGHT_TEXT", "CLEAR_HIGHLIGHTS"}, tb \in {Undef, TabId}}
    \cup {[type |-> t, tabId |-> Undef] : t \in (KnownTypes \cup OtherTypes)}

\* sender.tab?.id: a content script's tab, or none for the popup
SenderTabs == {Undef, TabId}

\* the argument of sendResponse
Reply(success, result, error) == [success |-> success, result |-> result, error |-> error]

\* faulty variant: an unrecognized message gets no reply
defaultCase_Silent == <<>>

\* default: sendResponse({ error: 'Unknown message type' })
defaultCase == <<Reply(Undef, Undef, "Unknown message type")>>

\* the switch of the listener, up to the first await of handleExtractPage
onMessage(m, senderTab) ==
    CASE m.type = "EXTRACT_PAGE" ->
            IF ~Truthy(senderTab)
            THEN [pc |-> "done", replies |-> <<Reply(Undef, Undef, "No active tab")>>,
                  forwards |-> <<>>]
            ELSE [pc |-> "script", replies |-> <<>>, forwards |-> <<>>]
      [] m.type = "OPEN_APP" ->
            [pc |-> "done", replies |-> <<Reply("true", Undef, Undef)>>,
             forwards |-> <<[to |-> "new tab", action |-> "open"]>>]
      [] m.type = "SELECTION_CHANGED" ->
            [pc |-> "done", replies |-> <<Reply("true", Undef, Undef)>>,
             forwards |-> <<[to |-> "runtime", action |-> m.type]>>]
      [] m.type = "HIGHLIGHT_TEXT" ->
            [pc |-> "done", replies |-> <<Reply("true", Undef, Undef)>>,
             forwards |-> IF Truthy(m.tabId)
                          THEN <<[to |-> m.tabId, action |-> "highlightText"]>>
                          ELSE <<>>]
      [] m.type = "CLEAR_HIGHLIGHTS" ->
            [pc |-> "done", replies |-> <<Reply("true", Undef, Undef)>>,
             forwards |-> IF Truthy(m.tabId)
                          THEN <<[to |-> m.tabId, action |-> "clearHighlights"]>>
                          ELSE <<>>]
      [] OTHER ->
            [pc |-> "done", replies |-> defaultCase, forwards |-> <<>>]

\* a message reaches the listener, which runs to its end or to its await
OnMessage(m, senderTab) ==
    /\ Len(exchanges) < MaxMsgs
    /\ exchanges' = Append(exchanges,
                           [msg |-> m, senderTab |-> senderTab] @@ onMessage(m, senderTab))
    /\ UNCHANGED <<popupVars, engineVars, detectorVars, watcherVars, extractorVars>>

\* the completion value of content/contentScript.js, an immediately invoked
\* function without a return value
contentScriptValue == Undef

\* what chrome.scripting.executeScript resolves with: one injection result,
\* or none
ScriptResults == {<<[result |-> contentScriptValue]>>, <<>>}

\* handleExtractPage after executeScript has resolved: results[0]?.result
ScriptResolved(i, results) ==
    /\ i \in DOMAIN exchanges
    /\ exchanges[i].pc = "script"
    /\ exchanges' =
          [exchanges EXCEPT
              ![i].pc = "done",
              ![i].replies =
                  Append(@, Reply("true",
                                  IF results = <<>> THEN Undef ELSE results[1].result,
                                  Undef))]
    /\ UNCHANGED <<popupVars, engineVars, detectorVars, watcherVars, extractorVars>>

\* handleExtractPage's catch: executeScript has rejected
ScriptRejected(i) ==
    /\ i \in DOMAIN exchanges
    /\ exchanges[i].pc = "script"
    /\ exchanges' = [exchanges EXCEPT ![i].pc = "done",
                                      ![i].replies = Append(@, Reply(Undef, Undef, "Cannot access tab"))]
    /\ UNCHANGED <<popupVars, engineVars, detectorVars, watcherVars, extractorVars>>

InitRouter == NoPopup /\ NoEngine /\ NoDetector /\ NoRouter /\ NoWatcher /\ NoExtractor

NextRouter ==
    \/ \E m \in RouterMessages, tb \in SenderTabs : OnMessage(m, tb)
    \/ \E i \in 1..MaxMsgs, r \in ScriptResults : ScriptResolved(i, r)
    \/ \E i \in 1..MaxMsgs : ScriptRejected(i)

\* the promise of executeScript settles
ScriptSettles ==
    \/ \E i \in 1..MaxMsgs, r \in ScriptResults : ScriptResolved(i, r)
    \/ \E i \in 1..MaxMsgs : ScriptRejected(i)

SpecRouter == InitRouter /\ [][NextRouter]_vars /\ WF_vars(ScriptSettles)

-----------------------------------------------------------------------------
(* Content script: setupSelectionListener, the selection watcher.  Time is *)
(* in milliseconds; a timer fires at its deadline or later.                *)

\* faulty variant: the timer is set without delay
debounceDelay_None == 300 - 300

\* setTimeout(..., 300)
debounceDelay == 300

\* selection.length > 100
minSelection == 100

\* what the user can have selected: nothing, 100 and 101 characters, and
\* selections with white space around them
Selections ==
    { <<>>,
      Fill("a", 100),
      Fill("a", 101),
      <<" ">> \o Fill("a", 100),
      <<" ">> \o Fill("a", 101) \o <<"\n">> }

\* the selection changes and the 'selectionchange' listener runs:
\* clearTimeout(debounceTimer); debounceTimer = setTimeout(..., 300)
SelectionChange(s) ==
    /\ s # watcher.selection
    /\ watcher.changes < MaxChanges
    /\ watcher' = [watcher EXCEPT
                      !.selection = s,
                      !.changes = @ + 1,
                      !.lastChange = watcher.clock,
                      !.debounceTimer = <<watcher.clock + debounceDelay>>]
    /\ UNCHANGED <<popupVars, engineVars, detectorVars, routerVars, extractorVars>>

\* time passes
Elapse(d) ==
    /\ watcher.clock + d <= MaxClock
    /\ watcher' = [watcher EXCEPT !.clock = @ + d]
    /\ UNCHANGED <<popupVars, engineVars, detectorVars, routerVars, extractorVars>>

\* the timer's callback: the selection is read and trimmed; a long one is
\* sent, and a rejection of sendMessage (no listener) is caught
TimerFires(delivered) ==
    /\ watcher.debounceTimer # <<>>
    /\ watcher.clock >= watcher.debounceTimer[1]
    /\ LET selection == trim(watcher.selection)
       IN  watcher' =
             [watcher EXCEPT
                 !.debounceTimer = <<>>,
                 !.sent =
                     IF Len(selection) > minSelection
                     THEN Append(@, [type |-> "SELECTION_CHANGED", text |-> selection,
                                     url |-> UrlA, title |-> "title",
                                     at |-> watcher.clock, change |-> watcher.changes,
                                     since |-> watcher.lastChange,
                                     delivered |-> delivered])
                     ELSE @]
    /\ UNCHANGED <<popupVars, engineVars, detectorVars, routerVars, extractorVars>>

InitWatch == NoPopup /\ NoEngine /\ NoDetector /\ NoRouter /\ NoWatcher /\ NoExtractor

NextWatch ==
    \/ \E s \in Selections : SelectionChange(s)
    \/ \E d \in {100, 250} : Elapse(d)
    \/ \E delivered \in BOOLEAN : TimerFires(delivered)

SpecWatch == InitWatch /\ [][NextWatch]_vars

\* the AddToCalendar requests that have reached the remote calendar service
CalendarRequests(q) ==
    {i \in DOMAIN q : q[i].op = "calendar" /\ q[i].pc = "remote"}

\* C22: a calendar request is sent only by the step that follows the answer
\* of the identity facility, and carries the credential obtained; when no
\* credential is obtained the orchestrator goes to Error with no request
\* sent; a successful reply to the request moves the state to Success
C22_CredentialFirst ==
    [][ /\ \A i \in CalendarRequests(inflight') : inflight'[i].kind = "token"
        /\ (CalendarRequests(inflight') # {} /\ CalendarRequests(inflight) = {}) =>
              /\ lastOp' = "calendar_request"
              /\ \E i \in DOMAIN inflight :
                    inflight[i].op = "calendar" /\ inflight[i].pc = "token"
        /\ lastOp' = "calendar_error" =>
              /\ js'.currentState = State.ERROR
              /\ js'.errorText # Null
              /\ CalendarRequests(inflight') = {}
        /\ lastOp' = "calendar_ok" =>
              /\ CalendarRequests(inflight) # {}
              /\ js'.currentState = State.SUCCESS ]_vars

C22_Witness ==
    /\ lastOp = "calendar_ok"
    /\ js.currentState = State.SUCCESS
    /\ js.calendarEvents = "[e1]"

\* the credential request has failed: Error, nothing sent
C22_WitnessNoToken ==
    /\ lastOp = "calendar_error"
    /\ js.currentState = State.ERROR
    /\ inflight = <<>>

AnsweredLanguage ==
    inflight[CHOOSE i \in DOMAIN inflight : inflight[i].op = "translate"].lang

\* C24: a Translate to another language whose remote call succeeds stores
\* translatedMarkdown, pushes exactly one 'translated' entry tagged with the
\* requested language, returns to Idle and starts the delivery (download) of
\* the translated artifact
C24_TranslateSuccess ==
    [][ (lastOp' = "translate_ok" /\ inflight' # inflight) =>
          /\ js'.translatedMarkdown = Translated(AnsweredLanguage)
          /\ js'.previewHistory =
                Append(js.previewHistory,
                       [type |-> "translated", content |-> js'.translatedMarkdown,
                        language |-> AnsweredLanguage])
          /\ js'.currentState = State.IDLE
          /\ \E i \in DOMAIN inflight' :
                /\ inflight'[i].op = "download"
                /\ inflight'[i].payload = js'.translatedMarkdown ]_vars

-----------------------------------------------------------------------------
(* Reset over a history with several translations: the popup on the PDF    *)
(* page, Detect, Simplify, Translate to two languages, Reset               *)

\* the languages the translation service supports here (supportedLanguages)
ResetLanguages == {"fr", "es"}

NextReset ==
    \/ OpenPopup
    \/ \E i \in 1..MaxInFlight + 1 : GetPageInfoDone(i)
    \/ \E i \in 1..MaxInFlight + 1 : restoreSession(i)
    \/ DetectClick
    \/ \E i \in 1..MaxInFlight + 1 : DetectTab(i)
    \/ \E i \in 1..MaxInFlight + 1 : DetectRemoteOk(i, "syllabus data", "[e1]")
    \/ SimplifyClick
    \/ \E i \in 1..MaxInFlight + 1, v \in SimplifiedValues : SimplifyOk(i, v)
    \/ toggleTranslateDropdown
    \/ \E l \in ResetLanguages : TranslateSelect(l)
    \/ \E i \in 1..MaxInFlight + 1 : TranslateOk(i)
    \/ ResetClick
    \/ DownloadClick
    \/ \E i \in 1..MaxInFlight + 1 : DownloadOk(i)

InitReset ==
    /\ popup = "closed"
    /\ js = InitJs
    /\ inflight = <<>>
    /\ storage = [k \in SessionKeys |-> <<>>]
    /\ page = ConcPage
    /\ pageHighlight = Null
    /\ now = 0
    /\ overlap = FALSE
    /\ lastOp = "init"
    /\ scenario = "off"
    /\ NoEngine
    /\ NoDetector
    /\ NoRouter /\ NoWatcher /\ NoExtractor

SpecReset == InitReset /\ [][NextReset]_vars

\* C25: when Reset pops an entry, the new top becomes the active preview and
\* currentLanguage and the stored artifacts agree with it: on an 'original'
\* top both artifacts are cleared and Translate is disabled, on a 'simplified'
\* top translatedMarkdown is cleared, and on a 'translated' top
\* translatedMarkdown is that entry's content, not the popped one's
C25_ResetAgrees ==
    [][ lastOp' = "reset" =>
          LET h == js'.previewHistory
              top == h[Len(h)]
          IN  /\ h = SubSeq(js.previewHistory, 1, Len(js.previewHistory) - 1)
              /\ js'.previewText = top.content
              /\ js'.currentPreviewType = top.type
              /\ js'.currentLanguage = top.language
              /\ top.type = "original" =>
                    /\ js'.simplifiedMarkdown = Null
                    /\ js'.translatedMarkdown = Null
                    /\ js'.translateBtnDisabled
              /\ top.type = "simplified" =>
                    /\ js'.simplifiedMarkdown = top.content
                    /\ js'.translatedMarkdown = Null
              /\ top.type = "translated" =>
                    js'.translatedMarkdown = top.content ]_vars

-----------------------------------------------------------------------------
(* The extraction functions: cleanText and extractMainContent of the       *)
(* content script, and extractPageContent, which the popup runs in the     *)
(* page for Detect.                                                        *)

\* length of the texts given to cleanText
MaxText == 6
\* child elements of a document's body
MaxChildren == 3

\* every maximal run of characters of S in s that has at least min
\* characters is replaced by repl: s.replace(/[S]{min,}/g, repl)
replaceRuns(s, S, min, repl) ==
    LET first(i) == CHOOSE b \in 1..i :
                        /\ \A k \in b..i : s[k] \in S
                        /\ b = 1 \/ s[b - 1] \notin S
        piece(i) == IF s[i] \notin S THEN <<s[i]>>
                    ELSE IF RunEnd(s, i, S) - first(i) + 1 < min THEN <<s[i]>>
                    ELSE IF first(i) = i THEN repl
                    ELSE <<>>
    IN  Concat([i \in 1..Len(s) |-> piece(i)], 1, Len(s))

\* .split('\n').map(line => line.trim()).join('\n')
RECURSIVE trimLines(_)
trimLines(s) ==
    LET breaks == {i \in 1..Len(s) : s[i] = "\n"}
    IN  IF breaks = {} THEN trim(s)
        ELSE LET i == CHOOSE b \in breaks : \A k \in breaks : b <= k
             IN  trim(SubSeq(s, 1, i - 1)) \o <<"\n">> \o trimLines(SubSeq(s, i + 1, Len(s)))

\* cleanText(text)
cleanText(text) ==
    IF text = <<>> THEN <<>>
    ELSE LET spaced == replaceRuns(text, {"\t", "\r"}, 1, <<" ">>)
             broken == replaceRuns(spaced, {"\n"}, 3, <<"\n", "\n">>)
             single == replaceRuns(broken, {" "}, 2, <<" ">>)
         IN  trim(trimLines(single))

\* the texts given to cleanText
CleanInputs == UNION {[1..k -> {"a", " ", "\n", "\t", "\r"}] : k \in 0..MaxText}

\* a document's body is the sequence of its child elements; an element has
\* the selector it matches and its parts, each a descendant with the
\* selector it matches ("p": none of the lists) and its text
Part(sel, text) == [sel |-> sel, text |-> text]

Child(sel, parts) == [sel |-> sel, parts |-> parts]

Children ==
    { Child("main", <<Part("p", Fill("s", 101))>>),
      Child("main", <<Part("p", <<" ">> \o Fill("m", 100) \o <<"\n">>)>>),
      Child("main", <<Part("p", <<" ", "\n">>)>>),
      Child("article", <<Part("nav", <<"n", "a", "v">>), Part("p", Fill("t", 101))>>),
      Child("nav", <<Part("p", <<"m", "e", "n", "u">>)>>),
      Child("p", <<Part("p", Fill("b", 60) \o <<"\t", "\n", " ">> \o Fill("b", 60)),
                   Part("script", <<"j", "s">>)>>) }

\* the documents: up to MaxChildren different children, in any order
Docs ==
    {d \in UNION {[1..k -> Children] : k \in 1..MaxChildren} :
        \A i, j \in DOMAIN d : i # j => d[i] # d[j]}

\* element.textContent
partsText(parts) == Concat([k \in DOMAIN parts |-> parts[k].text], 1, Len(parts))

\* document.body.textContent
bodyText(doc) == Concat([k \in DOMAIN doc |-> partsText(doc[k].parts)], 1, Len(doc))

\* document.querySelector(selector)
querySelector(doc, selector) ==
    LET hits == {i \in DOMAIN doc : doc[i].sel = selector}
    IN  IF hits = {} THEN <<>>
        ELSE <<doc[CHOOSE i \in hits : \A k \in hits : i <= k]>>

\* clone.querySelectorAll(selector).forEach(el => el.remove()), for every
\* selector of the list, on a copy of an element's parts
removeParts(parts, selectors) == SelectSeq(parts, LAMBDA q : q.sel \notin selectors)

\* the same on a copy of the body
removeFromBody(doc, selectors) ==
    LET kept == SelectSeq(doc, LAMBDA c : c.sel \notin selectors)
    IN  [k \in DOMAIN kept |-> [kept[k] EXCEPT !.parts = removeParts(@, selectors)]]

\* extractMainContent's and extractFromBody's lists (content script)
mainSelectors ==
    <<"main", "article", "[role=main]", ".content", ".main-content", "#content",
      "#main", ".syllabus", ".course-content", ".document-content">>

bodyRemoveSelectors ==
    {"script", "style", "noscript", "nav", "header", "footer", "aside", ".nav",
     ".navigation", ".sidebar", ".menu", ".ads", ".advertisement", ".cookie-banner",
     ".popup", ".modal"}

\* extractFromBody()
extractFromBody(doc) == cleanText(bodyText(removeFromBody(doc, bodyRemoveSelectors)))

\* extractMainContent(): the first selector whose element has more than
\* 100 characters of trimmed text
extractMainContent(doc) ==
    LET good == {k \in DOMAIN mainSelectors :
                   /\ querySelector(doc, mainSelectors[k]) # <<>>
                   /\ Len(trim(partsText(querySelector(doc, mainSelectors[k])[1].parts))) > 100}
    IN  IF good = {} THEN extractFromBody(doc)
        ELSE cleanText(partsText(querySelector(doc,
                 mainSelectors[CHOOSE k \in good : \A g \in good : k <= g])[1].parts))

\* extractPageContent's lists (popup)
contentSelectors ==
    <<"main", "article", "[role=main]", ".content", ".main-content", "#content",
      "#main", ".syllabus", ".course-content">>

removeSelectors ==
    {"nav", "header", "footer", "aside", ".sidebar", ".navigation", ".menu", ".nav",
     ".advertisement", ".ad", ".ads", "script", "style", "noscript",
     "[role=navigation]", "[role=banner]", "[role=contentinfo]",
     ".cookie-banner", ".popup", ".modal"}

\* extractPageContent() on an HTML page: the text it returns.  The first
\* selector that matches any element gives contentElement, else the body;
\* /\n\s*\n/ finds nothing once /\s+/ has replaced every newline
extractPageText(doc) ==
    LET found == {k \in DOMAIN contentSelectors : querySelector(doc, contentSelectors[k]) # <<>>}
        clone == IF found = {}
                 THEN bodyText(removeFromBody(doc, removeSelectors))
                 ELSE partsText(removeParts(
                          querySelector(doc, contentSelectors[
                              CHOOSE k \in found : \A g \in found : k <= g])[1].parts,
                          removeSelectors))
    IN  substring(trim(replaceRuns(clone, Whitespace \cup {"\r"}, 1, <<" ">>)), 50000)

\* extractPageContent is run in the page by executeScript
ExtractPageContent ==
    /\ extraction.doc # <<>>
    /\ extraction.result.page = <<>>
    /\ extraction' = [extraction EXCEPT !.result.page = <<extractPageText(extraction.doc)>>]
    /\ UNCHANGED <<popupVars, engineVars, detectorVars, routerVars, watcherVars>>

\* the content script's listener answers a request with extractMainContent
ExtractMainContent ==
    /\ extraction.doc # <<>>
    /\ extraction.result.main = <<>>
    /\ extraction' = [extraction EXCEPT !.result.main = <<extractMainContent(extraction.doc)>>]
    /\ UNCHANGED <<popupVars, engineVars, detectorVars, routerVars, watcherVars>>

\* cleanText is applied to the input, and then to what it returned
CleanText ==
    /\ extraction.doc = <<>>
    /\ Len(extraction.cleaned) < 2
    /\ extraction' = [extraction EXCEPT !.cleaned =
                          Append(@, cleanText(IF @ = <<>> THEN extraction.input ELSE @[Len(@)]))]
    /\ UNCHANGED <<popupVars, engineVars, detectorVars, routerVars, watcherVars>>

InitExtract ==
    /\ NoPopup /\ NoEngine /\ NoDetector /\ NoRouter /\ NoWatcher
    /\ \/ \E d \in Docs :
              extraction = [doc |-> d, live |-> d, result |-> [page |-> <<>>, main |-> <<>>],
                            input |-> <<>>, cleaned |-> <<>>]
       \/ \E t \in CleanInputs :
              extraction = [doc |-> <<>>, live |-> <<>>, result |-> [page |-> <<>>, main |-> <<>>],
                            input |-> t, cleaned |-> <<>>]

NextExtract == ExtractPageContent \/ ExtractMainContent \/ CleanText

SpecExtract == InitExtract /\ [][NextExtract]_vars

-----------------------------------------------------------------------------
(* The orchestrator on an HTML page when the user does not wait for a      *)
(* handler to end, selections arrive at any time, and the Simplify service *)
(* may answer success without a text                                       *)

SimplifyAnswers == {"simplified-1", Empty}

InitTranslate ==
    /\ popup = "closed"
    /\ js = InitJs
    /\ inflight = <<>>
    /\ storage = [k \in SessionKeys |-> <<>>]
    /\ page = CHOOSE p \in Pages : p.kind = "html" /\ ~Truthy(p.embeddedPdfUrl)
    /\ pageHighlight = Null
    /\ now = 0
    /\ overlap = TRUE
    /\ lastOp = "init"
    /\ scenario = "off"
    /\ NoEngine
    /\ NoDetector
    /\ NoRouter /\ NoWatcher /\ NoExtractor

NextTranslate ==
    \/ OpenPopup
    \/ \E i \in 1..MaxInFlight + 1 : GetPageInfoDone(i)
    \/ \E i \in 1..MaxInFlight + 1 : restoreSession(i)
    \/ \E t \in SelectionTexts : SelectionChanged(t)
    \/ DetectClick
    \/ \E i \in 1..MaxInFlight + 1 : DetectTab(i)
    \/ \E i \in 1..MaxInFlight + 1 : DetectScript(i, TRUE)
    \/ \E i \in 1..MaxInFlight + 1 : DetectRemoteOk(i, "syllabus data", "[e1]")
    \/ \E i \in 1..MaxInFlight + 1 : DetectFinish(i)
    \/ SimplifyClick
    \/ \E i \in 1..MaxInFlight + 1, v \in SimplifyAnswers : SimplifyOk(i, v)
    \/ toggleTranslateDropdown
    \/ \E l \in ResetLanguages : TranslateSelect(l)
    \/ \E i \in 1..MaxInFlight + 1 : TranslateOk(i)
    \/ ResetClick

SpecTranslate == InitTranslate /\ [][NextTranslate]_vars

-----------------------------------------------------------------------------
(* Properties of the highlight engine (checked under SpecHL) *)

\* C4: after any calls of highlight, a clear leaves no highlight marker in
\* the document and the body's text content as it was before the first
\* call; a clear with nothing highlighted changes nothing
C4_ClearRoundTrip ==
    /\ [](hlLast.op = "clearHighlights" =>
            /\ Markers(dom.body) = {}
            /\ textContent(dom.body) = text0)
    /\ [][(hlLast'.op = "clearHighlights" /\ Markers(dom.body) = {}) => dom' = dom]_vars

C4_Witness ==
    /\ hlLast.op = "clearHighlights"
    /\ hlLast.before >= 2
    /\ hlCalls = 3
    /\ Markers(dom.body) = {}
    /\ dom.head # <<>>

\* C5: at most 100 highlight markers exist in the document at any time, and
\* a highlight call with a text of fewer than 50 characters changes nothing
\* in the document (no style, no wrap, no unwrap)
C5_Bounded ==
    /\ [](Cardinality(Markers(dom.body)) <= 100)
    /\ [][(hlLast'.op = "highlightText" /\ Len(HLTexts[hlLast'.text]) < 50) => dom' = dom]_vars

C5_Witness ==
    /\ hlLast.op = "highlightText"
    /\ Len(HLTexts[hlLast.text]) = 49
    /\ hlLast.before = 100
    /\ Cardinality(Markers(dom.body)) = 100
    /\ Len(dom.body) > 100

\* C26: a highlightText call hands back to its caller the number of
\* fragments it wrapped in that call, which is the number of highlight
\* markers in the document when it returns; for a text of fewer than 50
\* characters it hands back 0
C26_ReturnsCount ==
    hlLast.op = "highlightText" =>
        /\ hlLast.call.returned = <<Len(hlLast.call.wrapped)>>
        /\ ~tooShort(HLTexts[hlLast.text]) =>
               Len(hlLast.call.wrapped) = Cardinality(Markers(dom.body))
        /\ Len(HLTexts[hlLast.text]) < 50 => hlLast.call.returned = <<0>>

\* C27: after a highlightText call with a text of 50 characters or more,
\* the highlight markers in the document are exactly the ones that call
\* created (those of earlier calls have been unwrapped); after a
\* clearHighlights call the document has no highlight marker
C27_OneSet ==
    /\ (hlLast.op = "highlightText" /\ ~tooShort(HLTexts[hlLast.text])) =>
           Markers(dom.body) = {hlLast.call.wrapped[i].at : i \in DOMAIN hlLast.call.wrapped}
    /\ hlLast.op = "clearHighlights" => Markers(dom.body) = {}

C27_Witness ==
    /\ hlLast.op = "highlightText"
    /\ hlLast.before >= 2
    /\ Len(hlLast.call.wrapped) = 1
    /\ Cardinality(Markers(dom.body)) = 1

\* the places of the nodes of the document whose text contains the first
\* 60 characters of a phrase
Holding(phrase) ==
    {p \in Places(dom.body) :
        /\ dom.body[p[1]][p[2]].tag \in {"#text", "SPAN"}
        /\ includes(dom.body[p[1]][p[2]].value, substring(phrase, 60))}

\* C28: in one highlightText call every wrap belongs to a phrase of more
\* than 30 and at most 150 characters and is of the first text node, in
\* document order, that contains the phrase's first 60 characters; a phrase
\* causes at most one wrap, and none when that node is already inside a
\* marker, so no text node is wrapped twice and no marker is nested
C28_OneWrapPerPhrase ==
    (hlLast.op = "highlightText" /\ ~tooShort(HLTexts[hlLast.text])) =>
        LET w == hlLast.call.wrapped
            phrases == Phrases(HLTexts[hlLast.text])
        IN  /\ \A i \in DOMAIN w :
                  /\ w[i].phrase \in DOMAIN phrases
                  /\ Len(phrases[w[i].phrase]) > 30
                  /\ Len(phrases[w[i].phrase]) <= 150
                  /\ w[i].at = FirstPlace(Holding(phrases[w[i].phrase]))
            /\ \A i, j \in DOMAIN w :
                  i # j => (w[i].phrase # w[j].phrase /\ w[i].at # w[j].at)
            /\ Cardinality(Markers(dom.body)) = Len(w)

\* the second phrase of the text is found in the node the first phrase has
\* wrapped, and the third phrase has been searched after it
C28_Witness ==
    /\ hlLast.op = "highlightText"
    /\ hlLast.text = 5
    /\ hlLast.call.wrapped = <<[phrase |-> 1, at |-> <<2, 1>>]>>
    /\ hlLast.call.walked = 3
    /\ Holding(Phrases(HLTexts[5])[2]) = {<<2, 1>>}

\* a phrase cut to 150 characters is found by its first 60 characters
C28_WitnessCapped ==
    /\ hlLast.op = "highlightText"
    /\ hlLast.text = 6
    /\ Len(Phrases(HLTexts[6])[1]) = 150
    /\ \E i \in DOMAIN hlLast.call.wrapped : hlLast.call.wrapped[i].phrase = 1

\* C29: after a highlightText call at most one element carries the class
\* syllabus-kitty-highlight-first, and if the call wrapped anything that
\* element is the first node it wrapped, it is in the document, and it is
\* the element scrollIntoView is called on after the loop
C29_Primary ==
    (hlLast.op = "highlightText" /\ ~tooShort(HLTexts[hlLast.text])) =>
        LET firsts == {p \in Markers(dom.body) : dom.body[p[1]][p[2]].first}
            w == hlLast.call.wrapped
        IN  /\ Cardinality(firsts) <= 1
            /\ w # <<>> =>
                  /\ firsts = {w[1].at}
                  /\ hlLast.call.firstHighlight
                  /\ hlLast.call.firstAt = w[1].at

\* C30: a highlightText call searches the document for at most the first
\* 100 phrases of its text: no tree walk and no wrap is made for a phrase
\* at position 101 or later
C30_FirstHundred ==
    hlLast.op = "highlightText" =>
        /\ hlLast.call.walked <= maxHighlights
        /\ \A i \in DOMAIN hlLast.call.wrapped :
               hlLast.call.wrapped[i].phrase <= maxHighlights

\* C31: when the wrap of a matched node throws, the highlightText call
\* goes on: the failed fragment is not counted and is not a marker, the
\* document's text content is what it was, every later phrase is still
\* searched (until 100 wraps are made), and the caller is answered as for
\* a call without a failure
C31_ThrowContained ==
    (hlLast.op = "highlightText" /\ hlLast.call.thrown # <<>>) =>
        LET w == hlLast.call.wrapped
            phrases == Phrases(HLTexts[hlLast.text])
        IN  /\ hlLast.call.logged = <<Len(w)>>
            /\ Cardinality(Markers(dom.body)) = Len(w)
            /\ \A i \in DOMAIN w, k \in DOMAIN hlLast.call.thrown :
                   w[i].phrase # hlLast.call.thrown[k]
            /\ textContent(dom.body) = text0
            /\ hlLast.call.walked = Len(phrases) \/ Len(w) = maxHighlights
            /\ hlLast.reply = [success |-> TRUE]
            /\ hlLast.call.returned = <<>>

\* the first phrase's wrap threw and the second phrase was wrapped after it
C31_Witness ==
    /\ hlLast.op = "highlightText"
    /\ hlLast.call.thrown = <<1>>
    /\ hlLast.call.walked = 2
    /\ \E i \in DOMAIN hlLast.call.wrapped : hlLast.call.wrapped[i].phrase = 2
    /\ textContent(dom.body) = text0

\* the texts inside the highlight markers of a body
WrappedTexts(body) == {body[p[1]][p[2]].value : p \in Markers(body)}

\* C40: a highlightText call that follows a highlightText call with the
\* same text, no wrap throwing in either, leaves the same texts wrapped,
\* the same number of markers and the same text content as the first call
C40_Idempotent ==
    [][ ( /\ hlLast.op = "highlightText"
          /\ hlLast'.op = "highlightText"
          /\ hlCalls' = hlCalls + 1
          /\ hlLast'.text = hlLast.text
          /\ hlLast.call.thrown = <<>>
          /\ hlLast'.call.thrown = <<>> )
        => /\ WrappedTexts(dom'.body) = WrappedTexts(dom.body)
           /\ Cardinality(Markers(dom'.body)) = Cardinality(Markers(dom.body))
           /\ textContent(dom'.body) = textContent(dom.body) ]_vars

-----------------------------------------------------------------------------
(* Properties of the syllabus detector (checked under SpecDet) *)

\* the same letter, in either case
SameLetter(a, b) ==
    a = b \/ \E j \in DOMAIN UpperCase : {a, b} = {UpperCase[j], LowerCase[j]}

\* the phrase occurs in the text, case-insensitively
Occurs(phrase, text) ==
    \E i \in 1..Len(text) - Len(phrase) + 1 :
        \A k \in 1..Len(phrase) : SameLetter(text[i + k - 1], phrase[k])

Vocabulary == {syllabusIndicators[i] : i \in DOMAIN syllabusIndicators}

\* C6: matchedTerms are the distinct phrases of the 16-phrase vocabulary that
\* occur in the page text case-insensitively; isSyllabus holds exactly when
\* there are at least 3 of them; confidence is min(n/5, 1), within [0, 1],
\* and 0.6 for 3 matches
C6_Detector ==
    detection # <<>> =>
        LET result == detection[1]
            terms == {result.matchedTerms[i] : i \in DOMAIN result.matchedTerms}
            n == Cardinality(terms)
            c == result.confidence
        IN  /\ Cardinality(Vocabulary) = 16
            /\ terms = {v \in Vocabulary : Occurs(v, pageText)}
            /\ Len(result.matchedTerms) = n
            /\ result.isSyllabus <=> n >= 3
            /\ c[2] > 0 /\ 0 <= c[1] /\ c[1] <= c[2]
            /\ IF n < 5 THEN c[1] * 5 = n * c[2] ELSE c[1] = c[2]
            /\ n = 3 => c[1] * 10 = 6 * c[2]

C6_Witness ==
    /\ detection # <<>>
    /\ detection[1].isSyllabus
    /\ Len(detection[1].matchedTerms) = 3
    /\ detection[1].confidence = <<3, 5>>
    /\ \E i \in DOMAIN pageText : pageText[i] = "S"

-----------------------------------------------------------------------------
(* Properties of the message router (checked under SpecRouter) *)

\* C19: every message whose type is none of the five the router knows is
\* answered, in the listener's run, with exactly one reply carrying the error
\* 'Unknown message type', and nothing is forwarded to a tab
C19_UnknownType ==
    \A i \in DOMAIN exchanges :
        exchanges[i].msg.type \notin KnownTypes =>
            /\ exchanges[i].pc = "done"
            /\ Len(exchanges[i].replies) = 1
            /\ exchanges[i].replies[1].error = "Unknown message type"
            /\ exchanges[i].replies[1].success = Undef
            /\ exchanges[i].forwards = <<>>

C19_Witness ==
    /\ Len(exchanges) = 2
    /\ exchanges[1].msg.type = Undef
    /\ exchanges[2].msg.type = "openApp"
    /\ exchanges[2].replies # <<>>

\* an EXTRACT_PAGE exchange whose reply is still to come
ExtractPending(i) ==
    /\ i \in DOMAIN exchanges
    /\ exchanges[i].msg.type = "EXTRACT_PAGE"
    /\ exchanges[i].replies = <<>>

\* an EXTRACT_PAGE exchange with its reply
ExtractReplied(i) ==
    /\ i \in DOMAIN exchanges
    /\ exchanges[i].msg.type = "EXTRACT_PAGE"
    /\ Len(exchanges[i].replies) = 1

\* C20: every EXTRACT_PAGE message eventually gets a reply and never more than
\* one, and the reply carries an error or a result that is not empty
C20_ExtractReply ==
    /\ \A i \in 1..MaxMsgs : ExtractPending(i) ~> ExtractReplied(i)
    /\ [](\A i \in DOMAIN exchanges :
             exchanges[i].msg.type = "EXTRACT_PAGE" =>
                 /\ Len(exchanges[i].replies) <= 1
                 /\ \A k \in DOMAIN exchanges[i].replies :
                       \/ Truthy(exchanges[i].replies[k].error)
                       \/ Truthy(exchanges[i].replies[k].result))

-----------------------------------------------------------------------------
(* Properties of the selection watcher (checked under SpecWatch) *)

\* C21: every SELECTION_CHANGED event is sent 300 ms or more after the most
\* recent selection change, carries the selection read then, longer than 100
\* characters, with url and title; no selection change yields two events, so
\* a burst of changes less than 300 ms apart yields at most one; an event
\* that is not delivered raises no error
C21_Debounce ==
    /\ \A k \in DOMAIN watcher.sent :
          /\ watcher.sent[k].at - watcher.sent[k].since >= 300
          /\ Len(watcher.sent[k].text) > 100
          /\ {"text", "url", "title"} \subseteq DOMAIN watcher.sent[k]
    /\ \A k, l \in DOMAIN watcher.sent :
          k < l => watcher.sent[k].change < watcher.sent[l].change
    /\ watcher.errors = 0

C21_Witness ==
    /\ Len(watcher.sent) = 2
    /\ ~watcher.sent[1].delivered
    /\ watcher.changes = 3
    /\ watcher.sent[2].change = 3
    /\ watcher.sent[2].at - watcher.sent[1].at < 600

-----------------------------------------------------------------------------
(* Properties of the extraction functions (checked under SpecExtract) *)

\* C33: what cleanText returns has no tab and no carriage return, no two
\* spaces in a row, no three newlines in a row, no line that begins or ends
\* with whitespace, and no whitespace at its beginning or end; cleanText
\* applied to it returns it unchanged
C33_Normalized ==
    extraction.cleaned # <<>> =>
        LET out == extraction.cleaned[1]
            n == Len(out)
        IN  /\ \A i \in 1..n : out[i] \notin {"\t", "\r"}
            /\ \A i \in 1..n - 1 : ~(out[i] = " " /\ out[i + 1] = " ")
            /\ \A i \in 1..n - 2 : ~(out[i] = "\n" /\ out[i + 1] = "\n" /\ out[i + 2] = "\n")
            /\ \A i \in 1..n : out[i] = "\n" =>
                   /\ i > 1 => out[i - 1] \notin {" ", "\t", "\r"}
                   /\ i < n => out[i + 1] \notin {" ", "\t", "\r"}
            /\ n > 0 => (out[1] \notin Whitespace /\ out[n] \notin Whitespace)
            /\ Len(extraction.cleaned) = 2 => extraction.cleaned[2] = out

\* the selectors of extractPageContent's list, by position, whose element
\* in the document has more than 100 characters of trimmed text
Qualifying(doc) ==
    {k \in DOMAIN contentSelectors :
        /\ querySelector(doc, contentSelectors[k]) # <<>>
        /\ Len(trim(partsText(querySelector(doc, contentSelectors[k])[1].parts))) > 100}

\* the whitespace normalisation of extractPageContent
pageNormal(text) == trim(replaceRuns(text, Whitespace \cup {"\r"}, 1, <<" ">>))

\* C32: the text extractPageContent returns for Detect is that of the
\* first element, in the order of the selector list, with more than 100
\* characters of trimmed text, and that of a copy of the body without the
\* excluded elements when there is none; the document is left as it was;
\* and a body with text whose candidates all have at most 100 characters
\* gives a text that is not empty
C32_FirstQualifying ==
    extraction.result.page # <<>> =>
        LET doc == extraction.doc
            good == Qualifying(doc)
            text == extraction.result.page[1]
        IN  /\ good # {} =>
                  text = pageNormal(partsText(removeParts(
                             querySelector(doc, contentSelectors[
                                 CHOOSE k \in good : \A g \in good : k <= g])[1].parts,
                             removeSelectors)))
            /\ good = {} => text = pageNormal(bodyText(removeFromBody(doc, removeSelectors)))
            /\ extraction.live = doc
            /\ (good = {} /\ trim(bodyText(removeFromBody(doc, removeSelectors))) # <<>>) =>
                  text # <<>>

-----------------------------------------------------------------------------
(* Further properties of the orchestrator *)

\* the artifacts Clear Detection resets
Artifacts(j) ==
    <<j.importedId, j.syllabusData, j.calendarEvents, j.simplifiedMarkdown,
      j.translatedMarkdown, j.previewHistory>>

\* C34: once Clear Detection has put the artifacts back to their initial
\* values, the answer of a Simplify or Translate call that was issued
\* before it leaves them at their initial values (checked under SpecConc)
C34_StaysCleared ==
    [][ ( /\ Artifacts(js) = Artifacts(InitJs)
          /\ lastOp' \in {"simplify_ok", "translate_ok"}
          /\ inflight' # inflight )
        => Artifacts(js') = Artifacts(InitJs) ]_vars

\* the Detect handlers that have started and not ended
DetectsInFlight == {i \in DOMAIN inflight : inflight[i].op = "detect"}

\* C35: while a Detect is in flight the Detect button is disabled, and no
\* second Detect is in flight with it
C35_DetectDisabled ==
    DetectsInFlight # {} =>
        /\ js.detectBtnDisabled
        /\ Cardinality(DetectsInFlight) = 1

\* the Translate call whose answer a step takes
AnsweredTranslate == inflight[CHOOSE i \in DOMAIN inflight : inflight[i].op = "translate"]

\* C36: when a Translate call fails, translatedMarkdown, the preview (type
\* and content) and the history are left as they are, currentLanguage is
\* what it was before the call, and the state is Error with a message
C36_TranslateFailure ==
    [][ (lastOp' = "translate_fail" /\ inflight' # inflight) =>
            /\ js'.translatedMarkdown = js.translatedMarkdown
            /\ js'.previewText = js.previewText
            /\ js'.currentPreviewType = js.currentPreviewType
            /\ js'.previewHistory = js.previewHistory
            /\ js'.currentLanguage = AnsweredTranslate.was
            /\ js'.currentState = State.ERROR
            /\ js'.errorText # Null ]_vars

\* the PDF requests a step has added to the suspended handlers
DownloadRequests == {i \in DOMAIN inflight' : inflight'[i].op = "download"}

\* C37: the content handleDownloadPdf sends to the PDF service is the text
\* shown in the preview, which is the content of the top history entry
\* (checked under SpecReset)
C37_DownloadsPreview ==
    [][ (lastOp' = "download_start" /\ inflight' # inflight) =>
            \A i \in DownloadRequests :
                /\ inflight'[i].payload = js.previewText
                /\ js.previewHistory # <<>>
                /\ inflight'[i].payload = js.previewHistory[Len(js.previewHistory)].content ]_vars

\* C38: when the popup holds a selected text (a SELECTION_CHANGED event was
\* accepted) and Detect runs on an HTML page, the text sent to the
\* extraction service is the selected text
C38_SelectionSubmitted ==
    [][ ( /\ lastOp' = "detect_script_ok"
          /\ inflight' # inflight
          /\ ~js.extractedData.isNull
          /\ js.extractedData.text \in SelectionTexts )
        => \A i \in DOMAIN inflight' :
               (inflight'[i].op = "detect" /\ inflight'[i].pc = "remote") =>
                   inflight'[i].payload = js.extractedData.text ]_vars

\* C39: the Translate button is enabled only while simplifiedMarkdown is
\* present
C39_TranslateNeedsSimplified ==
    ~js.translateBtnDisabled => Truthy(js.simplifiedMarkdown)

=============================================================================
